---------------------------- MODULE Spec2Model ----------------------------
(***************************************************************************)
(* A model of the vilocify SDK's JSON:API client: the transport            *)
(* (vilocify/http.py), the query builder and its cursor-following          *)
(* iteration, the field bindings, the serializer and the model base        *)
(* (vilocify/jsonapy.py).                                                  *)
(*                                                                         *)
(* Python values are modelled as follows.  None is the string "<None>"     *)
(* where the other values are strings, and the record [t |-> "null"]       *)
(* where they are JSON documents.  A header value is a sequence of         *)
(* string segments, so that str.startswith is a prefix test on it.  A      *)
(* dict with string keys is a function whose DOMAIN is the set of keys.    *)
(***************************************************************************)
EXTENDS Integers, Sequences, FiniteSets, TLC

VARIABLES
    httpResp,   \* the response the server gave to the last _request
    httpOut,    \* what the last _request returned or raised
    query,      \* the Request object: filters, sorter, _page_size
    qret,       \* what the last builder call returned or raised
    chain,      \* the documents the server answers the GETs of an iteration with
    it,         \* the position of the generator Request.__iter__
    yielded,    \* the items the generator has yielded so far
    gets,       \* the GETs the generator has issued so far
    calls,      \* the GETs the server has counted since its count was reset
    runs,       \* the iterations of the query completed since then
    inst,       \* the Model instances: _id, _jsonapi_attributes, relationship maps
    last,       \* what the last operation on an instance returned or raised
    pend,       \* the operation that waits for the response to its GET
    rt,         \* the last serialize/deserialize round trip
    config,     \* api_config: _token, the Authorization header, and the environment
    cret        \* what the last read of api_config.token returned

httpVars == <<httpResp, httpOut>>
queryVars == <<query, qret>>
iterVars == <<chain, it, yielded, gets, calls, runs>>
modelVars == <<inst, last, pend, rt>>
configVars == <<config, cret>>
vars == <<httpResp, httpOut, query, qret, chain, it, yielded, gets, calls, runs, inst, last,
          pend, rt, config, cret>>

None == "<None>"
JSONNull == [t |-> "null"]

(***************************************************************************)
(* Bounds of the model.                                                    *)
(***************************************************************************)
MaxErrors == 2      \* longest `errors` array of an error document
MaxFilters == 2     \* most where() calls on one query
MaxSize == 2        \* page_size is called with -MaxSize .. MaxSize
MaxPages == 3       \* longest chain of pages the server serves
MaxItems == 2       \* most items on one page

RECURSIVE SeqsUpTo(_, _)
SeqsUpTo(S, n) ==
    IF n = 0 THEN {<<>>}
    ELSE LET shorter == SeqsUpTo(S, n - 1)
         IN  shorter \cup {Append(s, x) : s \in {q \in shorter : Len(q) = n - 1}, x \in S}

(***************************************************************************)
(* Transport: vilocify/http.py                                             *)
(***************************************************************************)
MEDIA_TYPE == <<"application/vnd.api+json">>

UNSUPPORTED_MESSAGE == "Unsupported content type in server response."
FALLBACK_MESSAGE == "Encountered unknown error. No error details were provided from the server."

\* str.startswith on segmented strings
StartsWith(s, prefix) ==
    Len(s) >= Len(prefix) /\ SubSeq(s, 1, Len(prefix)) = prefix

\* dict.get(key, default) on an error object, whose absent keys are "<absent>"
Absent == "<absent>"
DictGet(v, default) == IF v = Absent THEN default ELSE v

\* JSONAPIError.from_dict
from_dict(d) ==
    [title  |-> DictGet(d.title, ""),
     detail |-> DictGet(d.detail, ""),
     source |-> DictGet(d.source, None)]

\* Variant of the comprehension of from_response that stops at the first entry
\* of raw_errors that is not a dict
ParseErrors_until_non_dict(raw) ==
    LET firstBad == IF \E k \in DOMAIN raw : raw[k].t # "dict"
                    THEN CHOOSE k \in DOMAIN raw :
                            raw[k].t # "dict" /\ \A m \in 1..(k - 1) : raw[m].t = "dict"
                    ELSE Len(raw) + 1
    IN  [k \in 1..(firstBad - 1) |-> from_dict(raw[k])]

RECURSIVE ParseErrors(_)
\* [JSONAPIError.from_dict(error) for error in raw_errors if isinstance(error, dict)]
ParseErrors(raw) ==
    IF raw = <<>> THEN <<>>
    ELSE IF Head(raw).t = "dict"
         THEN <<from_dict(Head(raw))>> \o ParseErrors(Tail(raw))
         ELSE ParseErrors(Tail(raw))

RECURSIVE JoinTitles(_)
\* ', '.join(f"'{e.title}'" for e in errors)
JoinTitles(errors) ==
    IF errors = <<>> THEN ""
    ELSE IF Len(errors) = 1 THEN "'" \o errors[1].title \o "'"
    ELSE "'" \o errors[1].title \o "', " \o JoinTitles(Tail(errors))

\* JSONAPIRequestError.from_response
from_response(code, response_json) ==
    LET errors == IF response_json.t = "dict" /\ response_json.errors.t = "list"
                  THEN ParseErrors(response_json.errors.items)
                  ELSE <<>>
        message == IF errors # <<>>
                   THEN "Encountered errors: " \o JoinTitles(errors)
                   ELSE FALLBACK_MESSAGE
    IN  [kind |-> "JSONAPIRequestError", error_code |-> code,
         message |-> message, errors |-> errors]

\* response.json(), with requests' JSONDecodeError caught: None for a body that
\* is empty or is not JSON
ResponseJson(response) ==
    IF response.content.t = "json" THEN response.content.value ELSE JSONNull

\* response.ok of requests: no 4xx or 5xx status
ResponseOk(response) == response.status_code < 400

\* Variant of the content-type test that does not look at the body
ContentTypeRejected_any_body(response) ==
    ~StartsWith(response.content_type, MEDIA_TYPE)

\* The content-type test of _request (line 54)
ContentTypeRejected(response) ==
    /\ response.content.t # "empty"
    /\ ~StartsWith(response.content_type, MEDIA_TYPE)

\* Variant of _request that tests the status before the content type
request_status_first(response) ==
    IF ~ResponseOk(response)
    THEN from_response(response.status_code, ResponseJson(response))
            @@ [checks |-> <<"json", "ok">>]
    ELSE IF ContentTypeRejected(response)
    THEN [kind |-> "RequestError", error_code |-> response.status_code,
          message |-> UNSUPPORTED_MESSAGE, checks |-> <<"json", "ok", "content_type">>]
    ELSE [kind |-> "return", value |-> ResponseJson(response),
          checks |-> <<"json", "ok", "content_type">>]

\* _request: what it returns or raises for the server's response, and the checks
\* it made on the way, in order
request(response) ==
    IF ContentTypeRejected(response)
    THEN [kind |-> "RequestError", error_code |-> response.status_code,
          message |-> UNSUPPORTED_MESSAGE, checks |-> <<"content_type">>]
    ELSE IF ~ResponseOk(response)
    THEN from_response(response.status_code, ResponseJson(response))
            @@ [checks |-> <<"content_type", "json", "ok">>]
    ELSE [kind |-> "return", value |-> ResponseJson(response),
          checks |-> <<"content_type", "json", "ok">>]

\* The responses of the server
StatusCodes == {200, 204, 302, 401, 500}
ContentTypes ==
    { <<>>,                                             \* no Content-Type header: ""
      <<"application/vnd.api+json">>,
      <<"application/vnd.api+json", "; charset=utf-8">>,
      <<"application/json">>,
      <<"application/vnd.api">>,
      <<"text/plain">> }
Titles == {Absent, "", "Unauthorized"}
Details == {Absent, "Please log in"}
Sources == {Absent, "/data"}
ErrorObjects ==
    {[t |-> "string"]} \cup
    [t : {"dict"}, title : Titles, detail : Details, source : Sources]
ErrorsFields ==
    {[t |-> "absent"], [t |-> "string"]} \cup
    [t : {"list"}, items : SeqsUpTo(ErrorObjects, MaxErrors)]
JsonBodies ==
    {JSONNull, [t |-> "list"]} \cup [t : {"dict"}, errors : ErrorsFields]
Contents ==
    {[t |-> "empty"], [t |-> "text"]} \cup [t : {"json"}, value : JsonBodies]
Responses ==
    [status_code : StatusCodes, content_type : ContentTypes, content : Contents]

NoResponse == [status_code |-> 0, content_type |-> <<>>, content |-> [t |-> "empty"]]
NoOutcome == [kind |-> "none"]

InitHttp ==
    /\ httpResp = NoResponse
    /\ httpOut = NoOutcome

\* http.get / post / patch / delete: one round trip through _request
HttpRequest ==
    /\ httpOut = NoOutcome
    /\ \E response \in Responses :
        /\ httpResp' = response
        /\ httpOut' = request(response)
    /\ UNCHANGED <<queryVars, iterVars, modelVars, configVars>>

\* The caller has what _request returned or raised, and may call again
HttpReturn ==
    /\ httpOut # NoOutcome
    /\ httpResp' = NoResponse
    /\ httpOut' = NoOutcome
    /\ UNCHANGED <<queryVars, iterVars, modelVars, configVars>>

(***************************************************************************)
(* Model base and field bindings: vilocify/jsonapy.py                       *)
(***************************************************************************)
CREATE == "create"
UPDATE == "update"

\* The model classes: Test as the tests declare it (two attributes serialized on
\* create and update, a to-one and a to-many relationship to itself), and
\* Membership with its write-once and its read-only binding.
Classes == {"Test", "Membership"}

\* The Attribute bindings of a class in declaration order: the python name, the
\* api_attribute_name and serialize_on
Bindings(cls) ==
    IF cls = "Test"
    THEN << [name |-> "a1", api |-> "a1", serialize |-> {CREATE, UPDATE}],
            [name |-> "a2", api |-> "a2", serialize |-> {CREATE, UPDATE}] >>
    ELSE << [name |-> "role", api |-> "role", serialize |-> {CREATE}],
            [name |-> "created_at", api |-> "createdAt", serialize |-> {}] >>

\* The relationship_name of the to-one and of the to-many relationship of a class
ToOneNames(cls) == IF cls = "Test" THEN {"test"} ELSE {}
ToManyNames(cls) == IF cls = "Test" THEN {"tests"} ELSE {}

\* ModelMeta.__init__: _model_attribute_names and _jsonapi_attribute_names
model_attribute_names(cls) == [k \in DOMAIN Bindings(cls) |-> Bindings(cls)[k].name]
jsonapi_attribute_names(cls) == [k \in DOMAIN Bindings(cls) |-> Bindings(cls)[k].api]

Range(f) == {f[k] : k \in DOMAIN f}

\* The binding a python attribute name resolves to
BindingOf(cls, name) ==
    CHOOSE b \in Range(Bindings(cls)) : b.name = name

\* Model.jsonapi_type_name
jsonapi_type_name(cls) == IF cls = "Test" THEN "tests" ELSE "memberships"

Values == {"v1", "v2"}
IDs == {"i1", "i2"}

EmptyDict == <<>>

\* The dicts with keys among `keys` and values in `vals`
Dicts(keys, vals) == UNION {[d -> vals] : d \in SUBSET keys}

\* The attribute bags an instance of a class can hold
Bags(cls) == Dicts(Range(jsonapi_attribute_names(cls)), Values)

\* The model objects a relationship is assigned
Related == {[cls |-> "Test", id |-> "i1"]}

\* Model.__init__ with no keyword
NewModel(cls) ==
    [cls |-> cls, id |-> None, attrs |-> EmptyDict, toOne |-> EmptyDict, toMany |-> EmptyDict]

\* Variant of the guards of Attribute.__set__ without the write-once guard
AttributeSetCheck_no_write_once(binding, attrs) ==
    IF binding.serialize = {} THEN "Cannot set read-only attribute" ELSE "ok"

\* Variant of the guards of Attribute.__set__ that refuses a read-only
\* attribute only when the bag holds it
AttributeSetCheck_read_only_when_held(binding, attrs) ==
    IF UPDATE \notin binding.serialize /\ binding.api \in DOMAIN attrs
    THEN IF binding.serialize = {} THEN "Cannot set read-only attribute"
         ELSE "Cannot set write-once attribute"
    ELSE "ok"

\* The guards of Attribute.__set__: the exception it raises, or "ok"
AttributeSetCheck(binding, attrs) ==
    IF binding.serialize = {} THEN "Cannot set read-only attribute"
    ELSE IF UPDATE \notin binding.serialize /\ binding.api \in DOMAIN attrs
    THEN "Cannot set write-once attribute"
    ELSE "ok"

\* Attribute.__set__: the bag after obj.<name> = value (unchanged when it raises)
AttributeSet(binding, attrs, value) ==
    IF AttributeSetCheck(binding, attrs) = "ok"
    THEN (binding.api :> value) @@ attrs
    ELSE attrs

(***************************************************************************)
(* URLs.  A URL or a path is a sequence of string segments in which every  *)
(* "/" is a segment of its own, so that strip("/") and rstrip("/") remove  *)
(* segments; the path element None is <<None>>.                            *)
(***************************************************************************)
Slash == "/"

RECURSIVE LStrip(_)
LStrip(s) == IF s # <<>> /\ Head(s) = Slash THEN LStrip(Tail(s)) ELSE s

RECURSIVE RStrip(_)
\* str.rstrip("/")
RStrip(s) ==
    IF s # <<>> /\ s[Len(s)] = Slash THEN RStrip(SubSeq(s, 1, Len(s) - 1)) ELSE s

\* str.strip("/")
Strip(s) == RStrip(LStrip(s))

RECURSIVE JoinSlash(_)
\* "/".join(segments)
JoinSlash(segments) ==
    IF segments = <<>> THEN <<>>
    ELSE IF Len(segments) = 1 THEN segments[1]
    ELSE segments[1] \o <<Slash>> \o JoinSlash(Tail(segments))

\* api_config.base_url (vilocify/__init__.py line 18, the default)
base_url == <<"https:", Slash, Slash, "portal.vilocify.com", Slash, "api", Slash, "v2">>

\* _APIConfig._drop_path: scheme and netloc only
drop_path(url) == SubSeq(url, 1, 4)

\* api_config.api_host
api_host == drop_path(base_url)

\* urljoin(base, *path): the URL, or the exception: ValueError for a base that
\* is no http(s) URL, AttributeError for a path element that is None
urljoin(base, path) ==
    IF base = <<>> \/ Head(base) \notin {"http:", "https:"}
    THEN [kind |-> "ValueError", why |-> "Bad schema in base"]
    ELSE IF \E k \in DOMAIN path : path[k] = <<None>>
    THEN [kind |-> "AttributeError", why |-> "'NoneType' object has no attribute 'strip'"]
    ELSE [kind |-> "url",
          url |-> RStrip(base) \o <<Slash>> \o JoinSlash([k \in DOMAIN path |-> Strip(path[k])])]

(***************************************************************************)
(* Serializer: vilocify/jsonapy.py                                         *)
(*                                                                         *)
(* A JSON value is a record tagged by t: "null", "string", "list" or       *)
(* "dict"; an absent key of a document is the value [t |-> "absent"].      *)
(***************************************************************************)
JSONAbsent == [t |-> "absent"]
JSONString == [t |-> "string"]

\* Serializer._get_data(api_response, data_type): "error", or the data, with
\* None for a null or absent data
get_data(api_response, data_type) ==
    IF api_response.t # "dict" THEN [kind |-> "DeserializationError"]
    ELSE IF api_response.data.t \in {"null", "absent"} THEN [kind |-> "None"]
    ELSE IF api_response.data.t # data_type THEN [kind |-> "DeserializationError"]
    ELSE [kind |-> "data", data |-> api_response.data]

\* The `included` part of Serializer.deserialize_one (lines 152-167): the
\* included_attributes, or the error
IncludedAttributes(cls, id, included) ==
    IF included.t \notin {"absent", "null", "list"} THEN [kind |-> "DeserializationError"]
    ELSE IF included.t = "list" /\ Len(included.items) = 1
    THEN LET included_doc == included.items[1]
         IN  IF /\ included_doc.t = "dict"
                /\ included_doc.attributes.t = "dict"
                /\ included_doc.id = id
                /\ included_doc.type = jsonapi_type_name(cls)
             THEN [kind |-> "attributes", d |-> included_doc.attributes.d]
             ELSE [kind |-> "DeserializationError"]
    ELSE [kind |-> "attributes", d |-> EmptyDict]

\* Serializer.deserialize_one: None, the new instance, or the exception
deserialize_one(target_cls, api_response) ==
    IF api_response.t = "null" THEN [kind |-> "None"]
    ELSE LET got == get_data(api_response, "dict")
         IN  IF got.kind # "data" THEN got
             ELSE IF got.data.id = Absent THEN [kind |-> "KeyError"]
             ELSE LET inc == IncludedAttributes(target_cls, got.data.id, api_response.included)
                  IN  IF inc.kind # "attributes" THEN inc
                      ELSE [kind |-> "obj",
                            obj  |-> [NewModel(target_cls) EXCEPT
                                        !.id = got.data.id,
                                        !.attrs = IF got.data.attributes.t = "absent"
                                                  THEN inc.d
                                                  ELSE got.data.attributes.d]]

\* Variant of the attributes of Serializer.serialize_one that takes the
\* bindings serialized on update, whatever the action is
SerializedAttributes_on_update(obj, action) ==
    LET keys == {b.api : b \in {c \in Range(Bindings(obj.cls)) :
                                    UPDATE \in c.serialize /\ c.api \in DOMAIN obj.attrs}}
    IN  [k \in keys |-> obj.attrs[k]]

\* The attributes of Serializer.serialize_one (lines 208-215)
SerializedAttributes(obj, action) ==
    LET keys == {b.api : b \in {c \in Range(Bindings(obj.cls)) :
                                    action \in c.serialize /\ c.api \in DOMAIN obj.attrs}}
    IN  [k \in keys |-> obj.attrs[k]]

\* A resource identifier {id, type} of a related model object
Identifier(item) == [id |-> item.id, type |-> jsonapi_type_name(item.cls)]

\* The relationships of Serializer.serialize_one (lines 222-231): to_many | to_one
SerializedRelationships(obj) ==
    LET to_many == [n \in DOMAIN obj.toMany |->
                        [data |-> [k \in DOMAIN obj.toMany[n] |-> Identifier(obj.toMany[n][k])]]]
        to_one == [n \in DOMAIN obj.toOne |-> [data |-> Identifier(obj.toOne[n])]]
    IN  to_one @@ to_many

\* Python's truth value of a str | None
Truthy(s) == s \notin {None, ""}

\* Serializer.serialize_one: the document sent on create or update
serialize_one(obj, meta, action) ==
    [data |-> [type |-> jsonapi_type_name(obj.cls),
               attributes |-> SerializedAttributes(obj, action),
               id |-> IF Truthy(obj.id) THEN obj.id ELSE Absent,
               relationships |-> SerializedRelationships(obj)],
     meta |-> IF Truthy(meta) THEN meta ELSE Absent]

\* A server's echo of a document sent on create: the same type and attributes,
\* under the id the server gives the resource (Absent: the document as sent,
\* which has no id)
Echo(document, id) ==
    [t |-> "dict",
     data |-> [t |-> "dict", type |-> document.data.type, id |-> id,
               attributes |-> [t |-> "dict", d |-> document.data.attributes]],
     included |-> JSONAbsent]

(***************************************************************************)
(* Operations on model instances                                           *)
(***************************************************************************)
Slots == {1, 2}

Idle == [op |-> "none"]
NoRoundTrip == [valid |-> FALSE]

Returned(op) == [op |-> op, kind |-> "return"]
Raised(op, kind, why) == [op |-> op, kind |-> kind, why |-> why]

\* The same for an operation that talks to the server: `sent` are the HTTP
\* requests it issued, in order
Sent(verb, url, json) == <<[verb |-> verb, url |-> url, json |-> json]>>
Done(op, sent) == [op |-> op, kind |-> "return", sent |-> sent]
Failed(op, kind, why, sent) == [op |-> op, kind |-> kind, why |-> why, sent |-> sent]

\* The same with the slot of the instance the operation was called on, and with
\* the server's answer when a request was issued
Answered(rec, i, outcome) ==
    rec @@ [slot |-> i] @@ (IF rec.sent = <<>> THEN <<>> ELSE [answer |-> outcome])

RECURSIVE SetAll(_, _, _, _)
\* The loop of Model.__init__ (lines 463-466) over the keywords `names` of
\* kwargs: the bag it builds, or the AttributeError
SetAll(cls, kwargs, names, attrs) ==
    IF names = <<>> THEN [kind |-> "return", attrs |-> attrs]
    ELSE LET arg == Head(names)
         IN  IF arg \notin DOMAIN kwargs THEN SetAll(cls, kwargs, Tail(names), attrs)
             ELSE IF arg \notin Range(model_attribute_names(cls))
             THEN [kind |-> "AttributeError", why |-> "has no attribute"]
             ELSE IF AttributeSetCheck(BindingOf(cls, arg), attrs) # "ok"
             THEN [kind |-> "AttributeError",
                   why |-> AttributeSetCheck(BindingOf(cls, arg), attrs)]
             ELSE SetAll(cls, kwargs, Tail(names),
                         AttributeSet(BindingOf(cls, arg), attrs, kwargs[arg]))

\* The keywords a constructor is called with: `id`, `type`, declared attribute
\* names and a name that is not declared
KwargNames(cls) == model_attribute_names(cls) \o <<"abc">>
KwargsOf ==
    [cls \in Classes |->
        {id @@ type @@ other @@ declared :
            id \in Dicts({"id"}, IDs), type \in Dicts({"type"}, {"v1"}),
            other \in Dicts({"abc"}, {"v1"}),
            declared \in Dicts(Range(model_attribute_names(cls)), Values)}]
Kwargs(cls) == KwargsOf[cls]

\* The keywords of a constructor call that names declared attributes and `id` only
PlainKwargsOf ==
    [cls \in Classes |-> {kw \in KwargsOf[cls] : DOMAIN kw \cap {"type", "abc"} = {}}]
PlainKwargs(cls) == PlainKwargsOf[cls]

\* Model.__init__: slot i holds the new instance, or keeps what it held when
\* the constructor raises; the result records the call
Construct(i, cls, kwargs) ==
    /\ pend = Idle
    /\ last = Idle
    /\ LET built == SetAll(cls, kwargs, KwargNames(cls), EmptyDict)
       IN  IF built.kind = "return"
           THEN /\ inst' = [inst EXCEPT ![i] =
                              [NewModel(cls) EXCEPT
                                 !.id = IF "id" \in DOMAIN kwargs THEN kwargs["id"] ELSE None,
                                 !.attrs = built.attrs]]
                /\ last' = Returned("init") @@ [args |-> <<i, cls, kwargs>>]
           ELSE /\ inst' = inst
                /\ last' = Raised("init", built.kind, built.why) @@ [args |-> <<i, cls, kwargs>>]
    /\ rt' = NoRoundTrip
    /\ UNCHANGED <<pend, httpVars, queryVars, iterVars, configVars>>

\* obj.<name> = value through Attribute.__set__
SetAttr(i, name, value) ==
    /\ pend = Idle
    /\ last = Idle
    /\ name \in Range(model_attribute_names(inst[i].cls))
    /\ LET binding == BindingOf(inst[i].cls, name)
           check == AttributeSetCheck(binding, inst[i].attrs)
       IN  /\ inst' = [inst EXCEPT ![i].attrs = AttributeSet(binding, @, value)]
           /\ last' = IF check = "ok" THEN Returned("set")
                      ELSE Raised("set", "AttributeError", check)
    /\ rt' = NoRoundTrip
    /\ UNCHANGED <<pend, httpVars, queryVars, iterVars, configVars>>

\* RelationshipToOne.__set__
SetToOne(i, name, value) ==
    /\ pend = Idle
    /\ last = Idle
    /\ name \in ToOneNames(inst[i].cls)
    /\ inst' = [inst EXCEPT ![i].toOne = (name :> value) @@ @]
    /\ last' = Returned("set_to_one")
    /\ rt' = NoRoundTrip
    /\ UNCHANGED <<pend, httpVars, queryVars, iterVars, configVars>>

\* RelationshipToMany.__set__
SetToMany(i, name, value) ==
    /\ pend = Idle
    /\ last = Idle
    /\ name \in ToManyNames(inst[i].cls)
    /\ inst' = [inst EXCEPT ![i].toMany = (name :> value) @@ @]
    /\ last' = Returned("set_to_many")
    /\ rt' = NoRoundTrip
    /\ UNCHANGED <<pend, httpVars, queryVars, iterVars, configVars>>

\* What http.get gives Request.get for a resource of class cls: one of the two
\* exceptions of the transport, or the parsed body
GetDocuments(cls) ==
    {JSONNull, [t |-> "list"]} \cup
    [t : {"dict"},
     data : {JSONNull, JSONAbsent, JSONString} \cup
            [t : {"dict"}, type : {jsonapi_type_name(cls)}, id : IDs \cup {Absent},
             attributes : {JSONAbsent} \cup [t : {"dict"}, d : Bags(cls)]],
     included : {JSONAbsent}]
HttpGetOutcomes(cls) ==
    {[kind |-> "RequestError"], [kind |-> "JSONAPIRequestError"]} \cup
    [kind : {"return"}, value : GetDocuments(cls)]

\* The URL of Request.get (line 299)
GetUrl(cls, resource_id) == urljoin(base_url, <<<<jsonapi_type_name(cls)>>, <<resource_id>>>>)

\* Variant of Request.get without the test for None
GetResult_unchecked(cls, outcome) ==
    IF outcome.kind # "return" THEN [kind |-> outcome.kind, why |-> "http"]
    ELSE LET res == deserialize_one(cls, outcome.value)
         IN  IF res.kind \in {"None", "obj"} THEN res @@ [why |-> "returned"]
             ELSE [kind |-> res.kind, why |-> "deserialize_one"]

\* Request.get after http.get: the instance, or the exception
GetResult(cls, outcome) ==
    IF outcome.kind # "return" THEN [kind |-> outcome.kind, why |-> "http"]
    ELSE LET res == deserialize_one(cls, outcome.value)
         IN  IF res.kind = "None"
             THEN [kind |-> "UnmappedModelError", why |-> "Cannot get resource"]
             ELSE IF res.kind = "obj" THEN res
             ELSE [kind |-> res.kind, why |-> "deserialize_one"]

\* Model.get(resource_id): the GET and its response; slot i holds the instance
\* it returns
Get(i, cls, resource_id, outcome) ==
    /\ pend = Idle
    /\ last = Idle
    /\ outcome \in HttpGetOutcomes(cls)
    /\ LET url == GetUrl(cls, resource_id)
           got == GetResult(cls, outcome)
       IN  IF url.kind # "url"
           THEN /\ inst' = inst
                /\ last' = Answered(Failed("get", url.kind, url.why, <<>>), i, outcome)
                                @@ [args |-> <<cls, resource_id>>]
           ELSE IF got.kind = "obj"
           THEN /\ inst' = [inst EXCEPT ![i] = got.obj]
                /\ last' = Answered(Done("get", Sent("GET", url.url, None)), i, outcome)
                                @@ [args |-> <<cls, resource_id>>]
           ELSE /\ inst' = inst
                /\ last' = Answered(Failed("get", got.kind, got.why,
                                           Sent("GET", url.url, None)), i, outcome)
                                @@ [args |-> <<cls, resource_id>>]
    /\ rt' = NoRoundTrip
    /\ UNCHANGED <<pend, httpVars, queryVars, iterVars, configVars>>

\* Variant of Model.refresh that copies the id and keeps the local bag
Refreshed_keeps_bag(obj, refreshed) ==
    [obj EXCEPT !.id = refreshed.id]

\* Variant of Model.refresh that merges the fetched bag into the local one
Refreshed_merged(obj, refreshed) ==
    [obj EXCEPT !.attrs = refreshed.attrs @@ obj.attrs, !.id = refreshed.id]

\* Model.refresh after Request.get returned `refreshed`
Refreshed(obj, refreshed) ==
    [obj EXCEPT !.attrs = refreshed.attrs, !.id = refreshed.id]

\* What inst[i] == inst[j] leaves in last: its operands and its result
EqReturned(i, j, value) == [op |-> "eq", args |-> <<i, j>>, kind |-> "return", value |-> value]
EqRaised(i, j, kind, why) == [op |-> "eq", args |-> <<i, j>>, kind |-> kind, why |-> why]

RECURSIVE EqFrom(_, _, _, _)
\* Model.__eq__ from the k-th declared attribute on (line 525), up to its result
\* or to the refresh that Attribute.__get__ starts for an attribute absent from
\* the bag of `who`
EqFrom(I, i, j, k) ==
    LET names == jsonapi_attribute_names(I[i].cls)
    IN  IF k > Len(names) THEN [t |-> "done", value |-> TRUE]
        ELSE IF names[k] \notin DOMAIN I[i].attrs THEN [t |-> "refresh", who |-> i, k |-> k]
        ELSE IF names[k] \notin DOMAIN I[j].attrs THEN [t |-> "refresh", who |-> j, k |-> k]
        ELSE IF I[i].attrs[names[k]] # I[j].attrs[names[k]]
        THEN [t |-> "done", value |-> FALSE]
        ELSE EqFrom(I, i, j, k + 1)

\* Model.__eq__ up to its attribute comparison (lines 522-524)
EqHead(a, b) ==
    /\ a.id = b.id
    /\ jsonapi_type_name(a.cls) = jsonapi_type_name(b.cls)

\* One stretch of self == other: from `step` it either ends, or stops at the GET
\* of a refresh, which an unmapped instance does not reach: its URL raises
EqContinue(I, i, j, step) ==
    IF step.t = "done"
    THEN /\ last' = EqReturned(i, j, step.value)
         /\ pend' = Idle
    ELSE LET url == GetUrl(I[step.who].cls, I[step.who].id)
         IN  IF url.kind # "url"
             THEN /\ last' = EqRaised(i, j, url.kind, url.why)
                  /\ pend' = Idle
             ELSE /\ last' = [op |-> "eq", args |-> <<i, j>>, kind |-> "pending"]
                  /\ pend' = [op |-> "eq", i |-> i, j |-> j, k |-> step.k, who |-> step.who]

\* inst[i] == inst[j], up to its result or to the first GET
Eq(i, j) ==
    /\ pend = Idle
    /\ last = Idle
    /\ IF EqHead(inst[i], inst[j])
       THEN EqContinue(inst, i, j, EqFrom(inst, i, j, 1))
       ELSE /\ last' = EqReturned(i, j, FALSE)
            /\ pend' = Idle
    /\ UNCHANGED <<inst, rt, httpVars, queryVars, iterVars, configVars>>

\* The response to the GET of a refresh inside inst[i] == inst[j] arrives:
\* Model.refresh, then Attribute.__get__ reads the bag (line 98), then the
\* comparison goes on
EqRefreshed(outcome) ==
    /\ pend # Idle
    /\ pend.op = "eq"
    /\ outcome \in HttpGetOutcomes(inst[pend.who].cls)
    /\ LET got == GetResult(inst[pend.who].cls, outcome)
           I == IF got.kind = "obj"
                THEN [inst EXCEPT ![pend.who] = Refreshed(@, got.obj)]
                ELSE inst
           name == jsonapi_attribute_names(inst[pend.i].cls)[pend.k]
       IN  /\ inst' = I
           /\ IF got.kind # "obj"
              THEN /\ last' = EqRaised(pend.i, pend.j, got.kind, got.why)
                   /\ pend' = Idle
              ELSE IF name \notin DOMAIN I[pend.who].attrs
              THEN /\ last' = EqRaised(pend.i, pend.j, "KeyError", name)
                   /\ pend' = Idle
              ELSE EqContinue(I, pend.i, pend.j, EqFrom(I, pend.i, pend.j, pend.k))
    /\ rt' = NoRoundTrip
    /\ UNCHANGED <<httpVars, queryVars, iterVars, configVars>>

\* Serializer.serialize_one(inst[i], None, CREATE), the server's echo of the
\* document under `id`, and Serializer.deserialize_one of the echo into slot j
RoundTrip(i, j, id) ==
    /\ pend = Idle
    /\ last = Idle
    /\ i # j
    /\ LET document == serialize_one(inst[i], None, CREATE)
           res == deserialize_one(inst[i].cls, Echo(document, id))
       IN  IF res.kind = "obj"
           THEN /\ inst' = [inst EXCEPT ![j] = res.obj]
                /\ last' = Returned("round_trip")
                /\ rt' = [valid |-> TRUE, src |-> i, dst |-> j, id |-> id]
           ELSE /\ inst' = inst
                /\ last' = Raised("round_trip", res.kind, "deserialize_one")
                /\ rt' = NoRoundTrip
    /\ UNCHANGED <<pend, httpVars, queryVars, iterVars, configVars>>

(***************************************************************************)
(* Operations of an instance on the server                                 *)
(***************************************************************************)
\* Serializer.serialize_meta
serialize_meta(meta) == [meta |-> IF meta = None THEN EmptyDict ELSE meta]

\* The instances a relationship call is given: mapped and unmapped ones
RelatedItems == {[cls |-> "Test", id |-> "i1"], [cls |-> "Test", id |-> None]}
MaxRelated == 2
RelatedArgs == SeqsUpTo(RelatedItems, MaxRelated)

\* Variant of serialize_many_related without the test of the items' ids
serialize_many_related_unchecked(related) ==
    [kind |-> "json", json |-> [data |-> [k \in DOMAIN related |-> Identifier(related[k])]]]

\* Serializer.serialize_many_related
serialize_many_related(related) ==
    IF \E k \in DOMAIN related : related[k].id = None
    THEN [kind |-> "UnmappedModelError", why |-> "Related model has no id"]
    ELSE [kind |-> "json", json |-> [data |-> [k \in DOMAIN related |-> Identifier(related[k])]]]

\* What the server answers a DELETE or a relationship POST with: an error, or
\* 204 with no body
EmptyOutcomes ==
    {[kind |-> "RequestError"], [kind |-> "JSONAPIRequestError"],
     [kind |-> "return", value |-> JSONNull]}

\* Variant of the tail of Request.create and Request.update that merges the
\* response's bag into the local one
Written_merged(op, i, cls, outcome, sent) ==
    IF outcome.kind # "return"
    THEN /\ inst' = inst
         /\ last' = Answered(Failed(op, outcome.kind, "http", sent), i, outcome)
    ELSE LET res == deserialize_one(cls, outcome.value)
         IN  IF res.kind = "None"
             THEN /\ inst' = inst
                  /\ last' = Answered(Done(op, sent), i, outcome)
             ELSE IF res.kind = "obj"
             THEN /\ inst' = [inst EXCEPT ![i].attrs = res.obj.attrs @@ inst[i].attrs,
                                          ![i].id = res.obj.id]
                  /\ last' = Answered(Done(op, sent), i, outcome)
             ELSE /\ inst' = inst
                  /\ last' = Answered(Failed(op, res.kind, "deserialize_one", sent), i, outcome)

\* The tail of Request.create and Request.update: deserialize the response and
\* copy the bag and the id into obj
Written(op, i, cls, outcome, sent) ==
    IF outcome.kind # "return"
    THEN /\ inst' = inst
         /\ last' = Answered(Failed(op, outcome.kind, "http", sent), i, outcome)
    ELSE LET res == deserialize_one(cls, outcome.value)
         IN  IF res.kind = "None"
             THEN /\ inst' = inst
                  /\ last' = Answered(Done(op, sent), i, outcome)
             ELSE IF res.kind = "obj"
             THEN /\ inst' = [inst EXCEPT ![i].attrs = res.obj.attrs, ![i].id = res.obj.id]
                  /\ last' = Answered(Done(op, sent), i, outcome)
             ELSE /\ inst' = inst
                  /\ last' = Answered(Failed(op, res.kind, "deserialize_one", sent), i, outcome)

\* Model.create -> Request.create
Create(i, outcome) ==
    /\ pend = Idle
    /\ last = Idle
    /\ outcome \in HttpGetOutcomes(inst[i].cls)
    /\ LET cls == inst[i].cls
           url == urljoin(base_url, <<<<jsonapi_type_name(cls)>>>>)
       IN  Written("create", i, cls, outcome,
                   Sent("POST", url.url, serialize_one(inst[i], None, CREATE)))
    /\ rt' = NoRoundTrip
    /\ UNCHANGED <<pend, httpVars, queryVars, iterVars, configVars>>

\* Model.update -> Request.update
Update(i, outcome) ==
    /\ pend = Idle
    /\ last = Idle
    /\ outcome \in HttpGetOutcomes(inst[i].cls)
    /\ LET cls == inst[i].cls
           url == urljoin(base_url, <<<<jsonapi_type_name(cls)>>, <<inst[i].id>>>>)
       IN  IF inst[i].id = None
           THEN /\ inst' = inst
                /\ last' = Answered(Failed("update", "UnmappedModelError",
                                           "Model is unmapped and has no ID", <<>>), i, outcome)
           ELSE Written("update", i, cls, outcome,
                        Sent("PATCH", url.url, serialize_one(inst[i], None, UPDATE)))
    /\ rt' = NoRoundTrip
    /\ UNCHANGED <<pend, httpVars, queryVars, iterVars, configVars>>

\* Variant of Model.delete that forgets the id of the instance once the
\* resource is deleted
Delete_clears_id(i, outcome) ==
    /\ pend = Idle
    /\ last = Idle
    /\ outcome \in EmptyOutcomes
    /\ LET cls == inst[i].cls
           url == urljoin(base_url, <<<<jsonapi_type_name(cls)>>, <<inst[i].id>>>>)
       IN  last' = Answered(
                     IF inst[i].id = None
                     THEN Failed("delete", "UnmappedModelError",
                                 "Model is unmapped and has no ID", <<>>)
                     ELSE IF outcome.kind # "return"
                     THEN Failed("delete", outcome.kind, "http",
                                 Sent("DELETE", url.url, serialize_meta(None)))
                     ELSE Done("delete", Sent("DELETE", url.url, serialize_meta(None))),
                     i, outcome)
    /\ inst' = IF inst[i].id # None /\ outcome.kind = "return"
               THEN [inst EXCEPT ![i].id = None] ELSE inst
    /\ rt' = NoRoundTrip
    /\ UNCHANGED <<pend, httpVars, queryVars, iterVars, configVars>>

\* Model.delete -> Request.delete
Delete(i, outcome) ==
    /\ pend = Idle
    /\ last = Idle
    /\ outcome \in EmptyOutcomes
    /\ LET cls == inst[i].cls
           url == urljoin(base_url, <<<<jsonapi_type_name(cls)>>, <<inst[i].id>>>>)
       IN  last' = Answered(
                     IF inst[i].id = None
                     THEN Failed("delete", "UnmappedModelError",
                                 "Model is unmapped and has no ID", <<>>)
                     ELSE IF outcome.kind # "return"
                     THEN Failed("delete", outcome.kind, "http",
                                 Sent("DELETE", url.url, serialize_meta(None)))
                     ELSE Done("delete", Sent("DELETE", url.url, serialize_meta(None))),
                     i, outcome)
    /\ rt' = NoRoundTrip
    /\ UNCHANGED <<inst, pend, httpVars, queryVars, iterVars, configVars>>

\* The URL of a relationship of an instance (lines 314, 370 and 430)
RelationshipUrl(cls, resource_id, name) ==
    urljoin(base_url, <<<<jsonapi_type_name(cls)>>, <<resource_id>>,
                        <<"relationships">>, <<name>>>>)

\* Request.update_many_related(obj, relationship_name, *related)
update_many_related(obj, name, related, outcome) ==
    LET url == RelationshipUrl(obj.cls, obj.id, name)
        body == serialize_many_related(related)
    IN  IF obj.id = None
        THEN Failed("extend", "UnmappedModelError", "Model is unmapped and has no ID", <<>>)
        ELSE IF url.kind # "url" THEN Failed("extend", url.kind, url.why, <<>>)
        ELSE IF body.kind # "json" THEN Failed("extend", body.kind, body.why, <<>>)
        ELSE IF outcome.kind # "return"
        THEN Failed("extend", outcome.kind, "http", Sent("POST", url.url, body.json))
        ELSE Done("extend", Sent("POST", url.url, body.json))

\* obj.<name>.extend(*related): RelationshipToMany.__get__, then Many.extend
Extend(i, name, related, outcome) ==
    /\ pend = Idle
    /\ last = Idle
    /\ name \in ToManyNames(inst[i].cls)
    /\ outcome \in EmptyOutcomes
    /\ last' = Answered(update_many_related(inst[i], name, related, outcome), i, outcome)
                    @@ [args |-> <<name, related>>]
    /\ rt' = NoRoundTrip
    /\ UNCHANGED <<inst, pend, httpVars, queryVars, iterVars, configVars>>

\* obj.<name>.delete(*related): RelationshipToMany.__get__ gives a Many, and
\* the class Many defines __iter__, extend, iids and ids only
ManyDelete(i, name, related) ==
    /\ pend = Idle
    /\ last = Idle
    /\ name \in ToManyNames(inst[i].cls)
    /\ last' = Answered(Failed("many_delete", "AttributeError",
                               "'Many' object has no attribute 'delete'", <<>>), i, None)
                    @@ [args |-> <<name, related>>]
    /\ rt' = NoRoundTrip
    /\ UNCHANGED <<inst, pend, httpVars, queryVars, iterVars, configVars>>

\* Model.refresh: Request.get(self.id), then the bag and the id are copied
refresh(op, i, outcome) ==
    LET cls == inst[i].cls
        url == GetUrl(cls, inst[i].id)
        got == GetResult(cls, outcome)
    IN  IF url.kind # "url"
        THEN [inst |-> inst, raised |-> TRUE, last |-> Failed(op, url.kind, url.why, <<>>)]
        ELSE IF got.kind # "obj"
        THEN [inst |-> inst, raised |-> TRUE,
              last |-> Failed(op, got.kind, got.why, Sent("GET", url.url, None))]
        ELSE [inst |-> [inst EXCEPT ![i] = Refreshed(@, got.obj)], raised |-> FALSE,
              last |-> Done(op, Sent("GET", url.url, None))]

\* obj.refresh()
Refresh(i, outcome) ==
    /\ pend = Idle
    /\ last = Idle
    /\ outcome \in HttpGetOutcomes(inst[i].cls)
    /\ LET r == refresh("refresh", i, outcome)
       IN  /\ inst' = r.inst
           /\ last' = Answered(r.last, i, outcome)
    /\ rt' = NoRoundTrip
    /\ UNCHANGED <<pend, httpVars, queryVars, iterVars, configVars>>

\* obj.<name> through Attribute.__get__: the value in the bag, after a refresh
\* when the bag does not hold the binding's name
ReadAttr(i, name, outcome) ==
    /\ pend = Idle
    /\ last = Idle
    /\ name \in Range(model_attribute_names(inst[i].cls))
    /\ outcome \in HttpGetOutcomes(inst[i].cls)
    /\ LET api == BindingOf(inst[i].cls, name).api
           r == refresh("read", i, outcome)
       IN  IF api \in DOMAIN inst[i].attrs
           THEN /\ inst' = inst
                /\ last' = Answered(Done("read", <<>>), i, outcome)
                                @@ [args |-> <<name>>, value |-> inst[i].attrs[api]]
           ELSE /\ inst' = r.inst
                /\ last' = Answered(IF r.raised THEN r.last
                                    ELSE IF api \in DOMAIN r.inst[i].attrs
                                    THEN r.last @@ [value |-> r.inst[i].attrs[api]]
                                    ELSE Failed("read", "KeyError", api, r.last.sent),
                                    i, outcome) @@ [args |-> <<name>>]
    /\ rt' = NoRoundTrip
    /\ UNCHANGED <<pend, httpVars, queryVars, iterVars, configVars>>

\* Variant of RelationshipToOne.__get__ that returns the model object assigned
\* to the relationship, when there is one, instead of fetching
ReadToOne_cached(i, name, outcome) ==
    /\ pend = Idle
    /\ last = Idle
    /\ name \in ToOneNames(inst[i].cls)
    /\ outcome \in HttpGetOutcomes("Test")
    /\ LET url == RelationshipUrl(inst[i].cls, inst[i].id, name)
           res == IF outcome.kind = "return" THEN deserialize_one("Test", outcome.value)
                  ELSE [kind |-> outcome.kind]
       IN  last' = Answered(
                     IF name \in DOMAIN inst[i].toOne
                     THEN Done("read_to_one", <<>>)
                             @@ [value |-> [kind |-> "obj", obj |-> inst[i].toOne[name]]]
                     ELSE IF inst[i].id = None
                     THEN Failed("read_to_one", "UnmappedModelError", "Model is not mapped", <<>>)
                     ELSE IF url.kind # "url"
                     THEN Failed("read_to_one", url.kind, url.why, <<>>)
                     ELSE IF res.kind \in {"None", "obj"}
                     THEN Done("read_to_one", Sent("GET", url.url, None)) @@ [value |-> res]
                     ELSE Failed("read_to_one", res.kind, "get_one_related",
                                 Sent("GET", url.url, None)),
                     i, outcome)
    /\ rt' = NoRoundTrip
    /\ UNCHANGED <<inst, pend, httpVars, queryVars, iterVars, configVars>>

\* obj.<name> through RelationshipToOne.__get__ -> Request.get_one_related
ReadToOne(i, name, outcome) ==
    /\ pend = Idle
    /\ last = Idle
    /\ name \in ToOneNames(inst[i].cls)
    /\ outcome \in HttpGetOutcomes("Test")
    /\ LET url == RelationshipUrl(inst[i].cls, inst[i].id, name)
           res == IF outcome.kind = "return" THEN deserialize_one("Test", outcome.value)
                  ELSE [kind |-> outcome.kind]
       IN  last' = Answered(
                     IF inst[i].id = None
                     THEN Failed("read_to_one", "UnmappedModelError", "Model is not mapped", <<>>)
                     ELSE IF url.kind # "url"
                     THEN Failed("read_to_one", url.kind, url.why, <<>>)
                     ELSE IF res.kind \in {"None", "obj"}
                     THEN Done("read_to_one", Sent("GET", url.url, None)) @@ [value |-> res]
                     ELSE Failed("read_to_one", res.kind, "get_one_related",
                                 Sent("GET", url.url, None)),
                     i, outcome)
    /\ rt' = NoRoundTrip
    /\ UNCHANGED <<inst, pend, httpVars, queryVars, iterVars, configVars>>

\* list(obj.<name>) through Many.__iter__ -> Request.iter_many_related, when the
\* server answers the first GET with an error or with no body (lines 370-377)
IterMany(i, name, outcome) ==
    /\ pend = Idle
    /\ last = Idle
    /\ name \in ToManyNames(inst[i].cls)
    /\ outcome \in EmptyOutcomes
    /\ LET url == RelationshipUrl(inst[i].cls, inst[i].id, name)
       IN  last' = Answered(
                     IF url.kind # "url"
                     THEN Failed("iter_many", url.kind, url.why, <<>>)
                     ELSE IF outcome.kind # "return"
                     THEN Failed("iter_many", outcome.kind, "http", Sent("GET", url.url, None))
                     ELSE Done("iter_many", Sent("GET", url.url, None)) @@ [value |-> <<>>],
                     i, outcome)
    /\ rt' = NoRoundTrip
    /\ UNCHANGED <<inst, pend, httpVars, queryVars, iterVars, configVars>>

\* The caller has what the operation returned or raised, and goes on
Return ==
    /\ pend = Idle
    /\ last # Idle
    /\ last' = Idle
    /\ UNCHANGED <<inst, pend, rt, httpVars, queryVars, iterVars, configVars>>

InitModel ==
    /\ inst = [i \in Slots |-> NewModel("Test")]
    /\ last = Idle
    /\ pend = Idle
    /\ rt = NoRoundTrip

(***************************************************************************)
(* Query builder: Request                                                  *)
(***************************************************************************)
DEFAULT_PAGE_SIZE == 100

\* Request.__init__
NewRequest == [filters |-> <<>>, sorter |-> None, page_size |-> DEFAULT_PAGE_SIZE]

RECURSIVE JoinComma(_)
\* ",".join(strings)
JoinComma(strings) ==
    IF strings = <<>> THEN ""
    ELSE IF Len(strings) = 1 THEN strings[1]
    ELSE strings[1] \o "," \o JoinComma(Tail(strings))

\* Request.where: a value is [t |-> "str", v |-> ...], [t |-> "list", v |-> ...]
\* or of another type
where(q, attribute, operator, value) ==
    LET joined == IF value.t = "list" THEN [t |-> "str", v |-> JoinComma(value.v)] ELSE value
    IN  IF joined.t # "str"
        THEN [kind |-> "TypeError", why |-> "value must be str or list", query |-> q]
        ELSE [kind |-> "return",
              query |-> [q EXCEPT !.filters =
                            Append(@, [attribute |-> attribute, operator |-> operator,
                                       value |-> joined.v])]]

\* Variant of Request.asc that tests the sorter as Request.__iter__ does
\* (`if self.sorter:`)
asc_if_sorter(q, attribute) ==
    IF Truthy(q.sorter)
    THEN [kind |-> "IllegalSortError", why |-> "Cannot sort by multiple attributes.",
          query |-> q]
    ELSE [kind |-> "return", query |-> [q EXCEPT !.sorter = attribute]]

\* Request.asc
asc(q, attribute) ==
    IF q.sorter # None
    THEN [kind |-> "IllegalSortError", why |-> "Cannot sort by multiple attributes.",
          query |-> q]
    ELSE [kind |-> "return", query |-> [q EXCEPT !.sorter = attribute]]

\* Request.desc
desc(q, attribute) == asc(q, "-" \o attribute)

\* Variant of Request.page_size that refuses negative sizes only
page_size_not_negative(q, size) ==
    IF size < 0
    THEN [kind |-> "ValueError", why |-> "Page size must be at least 1", query |-> q]
    ELSE [kind |-> "return", query |-> [q EXCEPT !.page_size = size]]

\* Request.page_size
page_size(q, size) ==
    IF size < 1
    THEN [kind |-> "ValueError", why |-> "Page size must be at least 1", query |-> q]
    ELSE [kind |-> "return", query |-> [q EXCEPT !.page_size = size]]

\* What a builder call leaves in qret: the exception, or the query it returns:
\* "self", the query it was called on
BuilderReturn(op, res) ==
    IF res.kind = "return"
    THEN [op |-> op, kind |-> "return", value |-> "self"]
    ELSE [op |-> op, kind |-> res.kind, why |-> res.why]

FilterAttributes == {"name", ""}
FilterOperators == {"eq", "in"}
FilterValues == {[t |-> "str", v |-> "x"], [t |-> "list", v |-> <<"x", "y">>], [t |-> "int"]}
SortAttributes == {"", "name", "version"}

Where(attribute, operator, value) ==
    /\ Len(query.filters) < MaxFilters
    /\ LET res == where(query, attribute, operator, value)
       IN  /\ query' = res.query
           /\ qret' = BuilderReturn("where", res)
    /\ UNCHANGED <<httpVars, iterVars, modelVars, configVars>>

Asc(attribute) ==
    /\ LET res == asc(query, attribute)
       IN  /\ query' = res.query
           /\ qret' = BuilderReturn("asc", res)
    /\ UNCHANGED <<httpVars, iterVars, modelVars, configVars>>

Desc(attribute) ==
    /\ LET res == desc(query, attribute)
       IN  /\ query' = res.query
           /\ qret' = BuilderReturn("desc", res)
    /\ UNCHANGED <<httpVars, iterVars, modelVars, configVars>>

PageSize(size) ==
    /\ LET res == page_size(query, size)
       IN  /\ query' = res.query
           /\ qret' = BuilderReturn("page_size", res)
    /\ UNCHANGED <<httpVars, iterVars, modelVars, configVars>>

\* A caller takes a new query: Request(model_class)
NewQuery ==
    /\ query' = NewRequest
    /\ qret' = [op |-> "new", kind |-> "return", value |-> "self"]
    /\ UNCHANGED <<httpVars, iterVars, modelVars, configVars>>

InitQuery ==
    /\ query = NewRequest
    /\ qret = [op |-> "new", kind |-> "return", value |-> "self"]

(***************************************************************************)
(* Cursor-following iteration: Request.__iter__                            *)
(***************************************************************************)
\* The model class of the query that is iterated
QueryClass == "Test"

RECURSIVE FilterParams(_)
\* {f"filter[{f.attribute}][{f.operator}]": f.value for f in self.filters}: a
\* later filter replaces an earlier one under the same key
FilterParams(filters) ==
    IF filters = <<>> THEN EmptyDict
    ELSE LET f == filters[Len(filters)]
         IN  (("filter[" \o f.attribute \o "][" \o f.operator \o "]") :> f.value)
                @@ FilterParams(SubSeq(filters, 1, Len(filters) - 1))

\* The params of the first GET of Request.__iter__ (lines 322-329)
IterParams(q, cls) ==
    LET fields == JoinComma(jsonapi_attribute_names(cls))
        sized == ("page[size]" :> ToString(q.page_size)) @@ FilterParams(q.filters)
        fielded == IF fields # ""
                   THEN (("fields[" \o jsonapi_type_name(cls) \o "]") :> fields) @@ sized
                   ELSE sized
    IN  IF Truthy(q.sorter) THEN ("sort" :> q.sorter) @@ fielded ELSE fielded

\* Serializer.deserialize_next_link: the link, None, or the exception
deserialize_next_link(api_response) ==
    IF api_response.t # "dict" THEN [kind |-> "DeserializationError"]
    ELSE IF api_response.links.t = "absent" THEN [kind |-> "KeyError"]
    ELSE IF api_response.links.t # "dict" THEN [kind |-> "DeserializationError"]
    ELSE IF api_response.links.next.t = "absent" THEN [kind |-> "KeyError"]
    ELSE IF api_response.links.next.t = "null" THEN [kind |-> "None"]
    ELSE IF api_response.links.next.t # "str" THEN [kind |-> "DeserializationError"]
    ELSE [kind |-> "link", link |-> api_response.links.next.v]

\* included.get((item["type"], item["id"])) of Serializer.deserialize_many: the
\* last included document with the item's type and id, as the one-element list
\* deserialize_one is given, or absent
IncludedFor(included, item) ==
    LET docs == IF included.t = "list" THEN included.items ELSE <<>>
        hits == {k \in DOMAIN docs : /\ docs[k].t = "dict"
                                     /\ docs[k].type = item.type
                                     /\ docs[k].id = item.id}
    IN  IF hits = {} THEN JSONAbsent
        ELSE [t |-> "list", items |-> <<docs[CHOOSE k \in hits : \A h \in hits : h <= k]>>]

\* Serializer.deserialize_many: the exception it raises before its first item,
\* or what deserialize_one gives for each item of data, in order
deserialize_many(target_cls, api_response) ==
    IF api_response.t = "null" THEN [kind |-> "items", items |-> <<>>]
    ELSE LET got == get_data(api_response, "list")
         IN  IF got.kind = "None" THEN [kind |-> "items", items |-> <<>>]
             ELSE IF got.kind # "data" THEN got
             ELSE IF api_response.included.t \notin {"absent", "list"}
             THEN [kind |-> "DeserializationError"]
             ELSE [kind |-> "items",
                   items |-> [k \in DOMAIN got.data.items |->
                                deserialize_one(target_cls,
                                    [t |-> "dict", data |-> got.data.items[k],
                                     included |-> IncludedFor(api_response.included,
                                                              got.data.items[k])])]]

\* The resources on page p of the server: n resource objects of ids "p-1" .. "p-n"
PageItems(p, n) ==
    [k \in 1..n |-> [t |-> "dict", type |-> jsonapi_type_name(QueryClass),
                     id |-> ToString(p) \o "-" \o ToString(k),
                     attributes |-> [t |-> "dict", d |-> EmptyDict]]]

\* The next links of the server: a path and an absolute URL
NextLinks ==
    { <<Slash, "api", Slash, "v2", Slash, "tests?page[after]=c">>,
      api_host \o <<Slash, "api", Slash, "v2", Slash, "tests?page[after]=c">> }

\* The documents the server answers the p-th GET of an iteration with; the
\* server serves at most MaxPages pages: its last page has no string as next
PageDocuments(p) ==
    {JSONNull, [t |-> "list"]} \cup
    [t : {"dict"},
     data : {JSONNull, JSONString} \cup {[t |-> "list", items |-> PageItems(p, n)] : n \in 0..MaxItems},
     links : {JSONAbsent, JSONString} \cup
             [t : {"dict"},
              next : {JSONAbsent, JSONNull, [t |-> "number"]} \cup
                     (IF p < MaxPages THEN [t : {"str"}, v : NextLinks] ELSE {})],
     included : {JSONAbsent}]
PageAnswers(p) ==
    {[kind |-> "RequestError"], [kind |-> "JSONAPIRequestError"]} \cup
    [kind : {"return"}, value : PageDocuments(p)]

IterIdle == [pc |-> "idle"]
IterDone == [pc |-> "done"]
IterRaised(kind) == [pc |-> "raised", kind |-> kind]
IterPage(response) == [pc |-> "page", response |-> response, pos |-> 0]

\* The generator after http.get gave `answer` for the first page (lines 331-334)
AfterFirstGet(answer) ==
    IF answer.kind # "return" THEN IterRaised(answer.kind)
    ELSE IF answer.value.t = "null" THEN IterDone
    ELSE IterPage(answer.value)

\* The generator after http.get gave `answer` for a following page (lines 336-337)
AfterNextGet(answer) ==
    IF answer.kind # "return" THEN IterRaised(answer.kind)
    ELSE IterPage(answer.value)

\* Variant of iter(query) that keeps the first page of a finished iteration
\* and serves it to the following iterations without a request
IterStart_cached(answer) ==
    /\ it.pc = "idle"
    /\ answer \in PageAnswers(1)
    /\ LET url == urljoin(base_url, <<<<jsonapi_type_name(QueryClass)>>>>)
       IN  /\ gets' = IF runs > 0 THEN <<>>
                      ELSE <<[url |-> url.url, params |-> IterParams(query, QueryClass)]>>
           /\ chain' = <<answer>>
           /\ yielded' = <<>>
           /\ it' = AfterFirstGet(answer)
    /\ calls' = IF runs > 0 THEN calls ELSE calls + 1
    /\ UNCHANGED <<runs, httpVars, queryVars, modelVars, configVars>>

\* iter(query) and its first step: the first GET (lines 320-331)
IterStart(answer) ==
    /\ it.pc = "idle"
    /\ answer \in PageAnswers(1)
    /\ LET url == urljoin(base_url, <<<<jsonapi_type_name(QueryClass)>>>>)
       IN  /\ gets' = <<[url |-> url.url, params |-> IterParams(query, QueryClass)]>>
           /\ chain' = <<answer>>
           /\ yielded' = <<>>
           /\ it' = AfterFirstGet(answer)
    /\ calls' = calls + 1
    /\ UNCHANGED <<runs, httpVars, queryVars, modelVars, configVars>>

\* yield from Serializer.deserialize_many: the next item of the page
IterYield ==
    /\ it.pc = "page"
    /\ LET page == deserialize_many(QueryClass, it.response)
       IN  /\ page.kind = "items"
           /\ it.pos < Len(page.items)
           /\ LET item == page.items[it.pos + 1]
              IN  IF item.kind = "obj"
                  THEN /\ yielded' = Append(yielded, item.obj)
                       /\ it' = [it EXCEPT !.pos = @ + 1]
                  ELSE IF item.kind = "None"
                  THEN /\ yielded' = yielded
                       /\ it' = [it EXCEPT !.pos = @ + 1]
                  ELSE /\ yielded' = yielded
                       /\ it' = IterRaised(item.kind)
    /\ UNCHANGED <<chain, gets, calls, runs, httpVars, queryVars, modelVars, configVars>>

\* Serializer.deserialize_many raises on the page's document
IterPageError ==
    /\ it.pc = "page"
    /\ LET page == deserialize_many(QueryClass, it.response)
       IN  /\ page.kind # "items"
           /\ it' = IterRaised(page.kind)
    /\ UNCHANGED <<chain, gets, yielded, calls, runs, httpVars, queryVars, modelVars,
                   configVars>>

\* Variant of the generator that goes on to the next link as soon as it holds a
\* page's document
Exhausted_on_arrival ==
    /\ it.pc = "page"
    /\ deserialize_many(QueryClass, it.response).kind = "items"

\* The page is exhausted: its items are all yielded
Exhausted ==
    /\ it.pc = "page"
    /\ LET page == deserialize_many(QueryClass, it.response)
       IN  page.kind = "items" /\ it.pos = Len(page.items)

\* The while condition (line 335) finds no next link: the generator returns
IterEnd ==
    /\ Exhausted
    /\ deserialize_next_link(it.response).kind = "None"
    /\ it' = IterDone
    /\ UNCHANGED <<chain, gets, yielded, calls, runs, httpVars, queryVars, modelVars,
                   configVars>>

\* Serializer.deserialize_next_link raises
IterLinkError ==
    /\ Exhausted
    /\ deserialize_next_link(it.response).kind \notin {"None", "link"}
    /\ it' = IterRaised(deserialize_next_link(it.response).kind)
    /\ UNCHANGED <<chain, gets, yielded, calls, runs, httpVars, queryVars, modelVars,
                   configVars>>

\* The while condition finds a next link: the GET of the next page (line 336)
IterFetch(answer) ==
    /\ Exhausted
    /\ deserialize_next_link(it.response).kind = "link"
    /\ answer \in PageAnswers(Len(chain) + 1)
    /\ LET url == urljoin(api_host, <<deserialize_next_link(it.response).link>>)
       IN  /\ gets' = Append(gets, [url |-> url.url, params |-> EmptyDict])
           /\ chain' = Append(chain, answer)
           /\ it' = AfterNextGet(answer)
    /\ calls' = calls + 1
    /\ UNCHANGED <<yielded, runs, httpVars, queryVars, modelVars, configVars>>

\* The generator has returned or raised and its caller drops it: the next
\* iter(query) makes a new one. The server's count starts again.
IterClose ==
    /\ it.pc \in {"done", "raised"}
    /\ it' = IterIdle
    /\ chain' = <<>>
    /\ yielded' = <<>>
    /\ gets' = <<>>
    /\ calls' = 0
    /\ runs' = 0
    /\ UNCHANGED <<httpVars, queryVars, modelVars, configVars>>

\* The number of iterations of one query that the server's count covers
MaxRuns == 2

\* The generator has returned and its caller iterates the same query again:
\* nothing of the finished generator is kept by the Request (lines 319-337
\* have only local variables), and the server goes on counting
IterAgain ==
    /\ it.pc = "done"
    /\ runs < MaxRuns
    /\ it' = IterIdle
    /\ chain' = <<>>
    /\ yielded' = <<>>
    /\ gets' = <<>>
    /\ runs' = runs + 1
    /\ UNCHANGED <<calls, httpVars, queryVars, modelVars, configVars>>

InitIter ==
    /\ chain = <<>>
    /\ it = IterIdle
    /\ yielded = <<>>
    /\ gets = <<>>
    /\ calls = 0
    /\ runs = 0

(***************************************************************************)
(* Configuration: vilocify/__init__.py                                     *)
(***************************************************************************)
\* The values a caller assigns to api_config.token, and the values of the
\* environment variable VILOCIFY_API_TOKEN (Absent: not set)
TokenValues == {None, "", "t1", "t2"}
EnvValues == {Absent, "", "e1", "e2"}

\* str(value) inside an f-string
Str(v) == IF v = None THEN "None" ELSE v

\* Variant of the token property that prefers the environment
token_env_first(c) ==
    IF c.env \notin {Absent, ""} THEN c.env
    ELSE IF Truthy(c.token) THEN c.token
    ELSE ""

\* _APIConfig.token (getter): self._token or os.environ.get(...) or ""
token(c) ==
    IF Truthy(c.token) THEN c.token
    ELSE IF c.env \notin {Absent, ""} THEN c.env
    ELSE ""

\* _APIConfig.__init__ with the variable not set in the environment
InitConfig ==
    /\ config = [token |-> None, env |-> Absent, authorization |-> "Bearer "]
    /\ cret = [op |-> "none"]

\* api_config.token = value (setter)
SetToken(value) ==
    /\ config' = [config EXCEPT !.token = value, !.authorization = "Bearer " \o Str(value)]
    /\ UNCHANGED <<cret, httpVars, queryVars, iterVars, modelVars>>

\* os.environ["VILOCIFY_API_TOKEN"] = value, or del os.environ[...]
SetEnv(value) ==
    /\ config' = [config EXCEPT !.env = value]
    /\ UNCHANGED <<cret, httpVars, queryVars, iterVars, modelVars>>

\* api_config.token (getter)
ReadToken ==
    /\ cret' = [op |-> "token", value |-> token(config)]
    /\ UNCHANGED <<config, httpVars, queryVars, iterVars, modelVars>>

\* api_config.client.request(...) in _request: the session sends the request
\* with the headers it holds
ClientRequest ==
    /\ cret' = [op |-> "request", authorization |-> config.authorization]
    /\ UNCHANGED <<config, httpVars, queryVars, iterVars, modelVars>>

(***************************************************************************)
(* Specifications                                                          *)
(***************************************************************************)
Init == InitHttp /\ InitQuery /\ InitIter /\ InitModel /\ InitConfig

\* The configuration object
NextConfig ==
    \/ \E v \in TokenValues : SetToken(v)
    \/ \E e \in EnvValues : SetEnv(e)
    \/ ReadToken
    \/ ClientRequest
SpecConfig == Init /\ [][NextConfig]_vars

\* The transport alone
NextHttp == HttpRequest \/ HttpReturn
SpecHttp == Init /\ [][NextHttp]_vars

\* The query builder
NextQuery ==
    \/ NewQuery
    \/ \E a \in FilterAttributes, o \in FilterOperators, v \in FilterValues : Where(a, o, v)
    \/ \E a \in SortAttributes : Asc(a)
    \/ \E a \in SortAttributes : Desc(a)
    \/ \E n \in (-MaxSize)..MaxSize : PageSize(n)
SpecQuery == Init /\ [][NextQuery]_vars

\* One iteration after another of a query
NextIter ==
    \/ \E answer \in PageAnswers(1) : IterStart(answer)
    \/ IterYield
    \/ IterPageError
    \/ IterEnd
    \/ IterLinkError
    \/ \E answer \in PageAnswers(Len(chain) + 1) : IterFetch(answer)
    \/ IterClose
SpecIter == Init /\ [][NextIter]_vars

\* A query that accumulates filters and is iterated; the server ends each
\* iteration at its first GET, with an error or with no body
NextFilter ==
    \/ NewQuery
    \/ \E o \in FilterOperators, v \in FilterValues : Where("name", o, v)
    \/ \E answer \in EmptyOutcomes : IterStart(answer)
    \/ IterClose
SpecFilter == Init /\ [][NextFilter]_vars

\* The pages of a server that holds MaxPages pages of one resource each
ServedPages(p) ==
    {[kind |-> "return",
      value |-> [t |-> "dict",
                 data |-> [t |-> "list", items |-> PageItems(p, 1)],
                 links |-> [t |-> "dict",
                            next |-> IF p < MaxPages
                                     THEN [t |-> "str",
                                           v |-> <<Slash, "api", Slash, "v2", Slash,
                                                   "tests?page[after]=c">>]
                                     ELSE JSONNull],
                 included |-> JSONAbsent]]}

\* A query built and iterated several times against that server
NextReiterate ==
    \/ NewQuery
    \/ \E v \in FilterValues : Where("name", "eq", v)
    \/ \E answer \in ServedPages(1) : IterStart(answer)
    \/ IterYield
    \/ \E answer \in ServedPages(Len(chain) + 1) : IterFetch(answer)
    \/ IterEnd
    \/ IterAgain
SpecReiterate == Init /\ [][NextReiterate]_vars

\* One model instance and its field bindings
NextAttr ==
    \/ \E cls \in Classes : \E kwargs \in Kwargs(cls) : Construct(1, cls, kwargs)
    \/ \E name \in {"a1", "a2", "role", "created_at"}, v \in Values : SetAttr(1, name, v)
    \/ \E r \in Related : SetToOne(1, "test", r)
    \/ \E r \in Related : SetToMany(1, "tests", <<r>>)
    \/ \E cls \in Classes, id \in IDs : \E outcome \in HttpGetOutcomes(cls) : Get(1, cls, id, outcome)
    \/ Return
SpecAttr == Init /\ [][NextAttr]_vars

\* Two model instances, their comparison and the serializer's round trip.  The
\* attributes are assigned one by one, and relationships to the first instance.
NextEq ==
    \/ \E i \in Slots, cls \in Classes : \E kwargs \in Dicts({"id"}, IDs) : Construct(i, cls, kwargs)
    \/ \E i \in Slots, name \in {"a1", "a2", "role", "created_at"}, v \in Values : SetAttr(i, name, v)
    \/ \E r \in Related : SetToOne(1, "test", r)
    \/ \E r \in Related : SetToMany(1, "tests", <<r>>)
    \/ \E i, j \in Slots : Eq(i, j)
    \/ \E cls \in Classes : \E outcome \in HttpGetOutcomes(cls) : EqRefreshed(outcome)
    \/ \E i, j \in Slots, id \in IDs \cup {Absent} : RoundTrip(i, j, id)
    \/ Return
SpecEq == Init /\ [][NextEq]_vars

\* An instance built by the keywords of its constructor, another built by
\* Test() or Membership() and assignments, and their comparison (the second
\* instance has no id, so that no comparison reaches the GET of a refresh)
NextInit ==
    \/ \E cls \in Classes : \E kwargs \in Kwargs(cls) : Construct(1, cls, kwargs)
    \/ \E cls \in Classes : Construct(2, cls, EmptyDict)
    \/ \E name \in {"a1", "a2", "role", "created_at"}, v \in Values : SetAttr(2, name, v)
    \/ Eq(1, 2)
    \/ Return
SpecInit == Init /\ [][NextInit]_vars

\* One model instance and its operations on the server
NextWrite ==
    \/ \E cls \in Classes : \E kwargs \in Dicts({"id"}, IDs \cup {""}) : Construct(1, cls, kwargs)
    \/ \E name \in {"a1", "a2", "role", "created_at"}, v \in Values : SetAttr(1, name, v)
    \/ \E r \in Related : SetToOne(1, "test", r)
    \/ \E r \in Related : SetToMany(1, "tests", <<r>>)
    \/ \E cls \in Classes, id \in IDs : \E outcome \in HttpGetOutcomes(cls) : Get(1, cls, id, outcome)
    \/ \E cls \in Classes : \E outcome \in HttpGetOutcomes(cls) : Create(1, outcome)
    \/ \E cls \in Classes : \E outcome \in HttpGetOutcomes(cls) : Update(1, outcome)
    \/ \E outcome \in EmptyOutcomes : Delete(1, outcome)
    \/ \E related \in RelatedArgs, outcome \in EmptyOutcomes : Extend(1, "tests", related, outcome)
    \/ \E related \in RelatedArgs : ManyDelete(1, "tests", related)
    \/ \E cls \in Classes : \E outcome \in HttpGetOutcomes(cls) : Refresh(1, outcome)
    \/ \E name \in {"a1", "a2", "role", "created_at"}, cls \in Classes :
            \E outcome \in HttpGetOutcomes(cls) : ReadAttr(1, name, outcome)
    \/ \E outcome \in HttpGetOutcomes("Test") : ReadToOne(1, "test", outcome)
    \/ \E outcome \in EmptyOutcomes : IterMany(1, "tests", outcome)
    \/ Return
SpecWrite == Init /\ [][NextWrite]_vars


(***************************************************************************)
(* Properties of the transport (SpecHttp)                                  *)
(***************************************************************************)
\* The response of the last _request has a body and a Content-Type header
\* that does not begin with the JSON:API media type
ForeignBody ==
    /\ httpOut # NoOutcome
    /\ httpResp.content.t # "empty"
    /\ \/ httpResp.content_type = <<>>
       \/ httpResp.content_type[1] # "application/vnd.api+json"

\* C8: a response with a non-empty body whose Content-Type does not start with
\* application/vnd.api+json makes _request raise RequestError (never the
\* JSONAPIRequestError subclass) with the message "Unsupported content type in
\* server response." whatever the status code is, and the content-type test is
\* the only check _request has made when it raises: the body is not parsed and
\* the status is not looked at.
C8_UnsupportedContentType ==
    ForeignBody =>
        /\ httpOut.kind = "RequestError"
        /\ httpOut.message = "Unsupported content type in server response."
        /\ httpOut.error_code = httpResp.status_code
        /\ httpOut.checks = <<"content_type">>

\* C8 happens: a JSON document served as application/json with status 500 is
\* refused for its content type, not for its status
C8_Witness ==
    /\ httpResp.status_code = 500
    /\ httpResp.content_type = <<"application/json">>
    /\ httpResp.content.t = "json"
    /\ httpOut.kind = "RequestError"
    /\ httpOut.checks = <<"content_type">>

\* The entries of the `errors` array of the last response's body that are
\* objects; none when the body is no object or has no `errors` array
ErrorObjectsOf(response) ==
    IF /\ response.content.t = "json"
       /\ response.content.value.t = "dict"
       /\ response.content.value.errors.t = "list"
    THEN SelectSeq(response.content.value.errors.items, LAMBDA e : e.t = "dict")
    ELSE <<>>

\* The title an error object is reported with
TitleOf(e) == IF e.title = Absent THEN "" ELSE e.title

RECURSIVE QuotedTitles(_, _)
\* The titles of objs[1..n], each in single quotes, separated by ", "
QuotedTitles(objs, n) ==
    IF n = 0 THEN ""
    ELSE IF n = 1 THEN "'" \o TitleOf(objs[1]) \o "'"
    ELSE QuotedTitles(objs, n - 1) \o ", '" \o TitleOf(objs[n]) \o "'"

\* C9: a non-success status with a JSON:API body makes _request raise
\* JSONAPIRequestError with the status code and exactly one parsed error per
\* object of the body's `errors` array, in order, each with the object's title
\* and detail ("" when absent) and its source (None when absent); with no such
\* object the errors list is empty and the message is the fixed fallback,
\* otherwise the message is "Encountered errors: " and the quoted titles.
C9_ProtocolError ==
    ( /\ httpOut # NoOutcome
      /\ httpResp.status_code >= 400
      /\ httpResp.content.t # "empty"
      /\ ~ForeignBody )
    => LET objs == ErrorObjectsOf(httpResp)
       IN  /\ httpOut.kind = "JSONAPIRequestError"
           /\ httpOut.error_code = httpResp.status_code
           /\ Len(httpOut.errors) = Len(objs)
           /\ \A k \in 1..Len(objs) :
                /\ httpOut.errors[k].title = TitleOf(objs[k])
                /\ httpOut.errors[k].detail =
                        (IF objs[k].detail = Absent THEN "" ELSE objs[k].detail)
                /\ httpOut.errors[k].source =
                        (IF objs[k].source = Absent THEN None ELSE objs[k].source)
           /\ httpOut.message =
                IF objs = <<>>
                THEN "Encountered unknown error. No error details were provided from the server."
                ELSE "Encountered errors: " \o QuotedTitles(objs, Len(objs))

\* C9 happens: a 401 whose errors array holds a string and then one object
\* without source gives exactly one parsed error, with source None
C9_Witness ==
    /\ httpResp.status_code = 401
    /\ httpResp.content.t = "json"
    /\ httpResp.content.value.t = "dict"
    /\ httpResp.content.value.errors.t = "list"
    /\ Len(httpResp.content.value.errors.items) = 2
    /\ httpResp.content.value.errors.items[1].t = "string"
    /\ httpOut.kind = "JSONAPIRequestError"
    /\ Len(httpOut.errors) = 1
    /\ httpOut.errors[1].title = "Unauthorized"
    /\ httpOut.errors[1].source = None
    /\ httpOut.message = "Encountered errors: 'Unauthorized'"

\* C10: a response with an empty body never makes _request raise the
\* content-type RequestError, whatever its Content-Type header is: a success
\* status returns None, and a non-success status raises JSONAPIRequestError
\* with the fallback message and no errors.
C10_EmptyBody ==
    (httpOut # NoOutcome /\ httpResp.content.t = "empty")
    => IF httpResp.status_code < 400
       THEN /\ httpOut.kind = "return"
            /\ httpOut.value = JSONNull
       ELSE /\ httpOut.kind = "JSONAPIRequestError"
            /\ httpOut.error_code = httpResp.status_code
            /\ httpOut.errors = <<>>
            /\ httpOut.message =
                "Encountered unknown error. No error details were provided from the server."

\* C10 happens: a 500 with Content-Type text/plain and no body is a protocol
\* error with the fallback message
C10_Witness ==
    /\ httpOut # NoOutcome
    /\ httpResp.status_code = 500
    /\ httpResp.content_type = <<"text/plain">>
    /\ httpResp.content.t = "empty"
    /\ httpOut.kind = "JSONAPIRequestError"
    /\ httpOut.message = FALLBACK_MESSAGE


(***************************************************************************)
(* Properties of the query builder (SpecQuery)                             *)
(***************************************************************************)
\* A successful asc or desc has been made on the query: sorter is None from
\* Request.__init__ until asc assigns it
Sorted == query.sorter # None

\* C5: on one query, once an asc(a) or desc(a) has succeeded, every asc(b) and
\* desc(b) raises IllegalSortError and leaves sorter, filters and page size as
\* they were, for all attribute names a and b, the empty name included.  In
\* steps: a query starts unsorted; an asc or desc on an unsorted query succeeds
\* and makes it sorted; a sorted query stays sorted, with the same sorter,
\* under every call; and asc and desc on a sorted query raise and change
\* nothing.
C5_SecondSortFails ==
    /\ [](qret.op = "new" => ~Sorted)
    /\ [][ /\ \A b \in SortAttributes :
                /\ (Asc(b) /\ ~Sorted)
                      => /\ qret' = [op |-> "asc", kind |-> "return", value |-> "self"]
                         /\ Sorted'
                /\ (Desc(b) /\ ~Sorted)
                      => /\ qret' = [op |-> "desc", kind |-> "return", value |-> "self"]
                         /\ Sorted'
                /\ (Asc(b) /\ Sorted)
                      => /\ qret'.op = "asc"
                         /\ qret'.kind = "IllegalSortError"
                         /\ query' = query
                /\ (Desc(b) /\ Sorted)
                      => /\ qret'.op = "desc"
                         /\ qret'.kind = "IllegalSortError"
                         /\ query' = query
           /\ (Sorted /\ qret'.op # "new") => query'.sorter = query.sorter
         ]_vars

\* C5 happens: a query sorted by the empty attribute name refuses a desc
C5_Witness ==
    /\ query.sorter = ""
    /\ qret.op = "desc"
    /\ qret.kind = "IllegalSortError"

\* C6: page_size(n) raises ValueError "Page size must be at least 1" for every
\* n < 1 and leaves the page size (100 on a new query) and the rest of the
\* query as they were; for every n >= 1 it sets the page size to n, changes
\* nothing else and returns the query it was called on.
C6_PageSize ==
    /\ [](qret.op = "new" => query.page_size = 100)
    /\ [][ \A n \in (-MaxSize)..MaxSize :
             PageSize(n) =>
                IF n < 1
                THEN /\ qret' = [op |-> "page_size", kind |-> "ValueError",
                                 why |-> "Page size must be at least 1"]
                     /\ query' = query
                ELSE /\ qret' = [op |-> "page_size", kind |-> "return", value |-> "self"]
                     /\ query'.page_size = n
                     /\ query'.filters = query.filters
                     /\ query'.sorter = query.sorter
         ]_vars

\* C6 happens: page_size(0) is refused on a query that still has the default
\* page size
C6_Witness ==
    /\ qret.op = "page_size"
    /\ qret.kind = "ValueError"
    /\ query.page_size = 100

(***************************************************************************)
(* Properties of the field bindings (SpecAttr)                             *)
(***************************************************************************)
\* The python names of the bindings of a class that are serialized on exactly
\* the actions `on`
NamesSerializedOn(cls, on) ==
    {b.name : b \in {c \in Range(Bindings(cls)) : c.serialize = on}}

\* C2: assigning a write-once field (serialized on create only) of an instance
\* whose bag does not hold the binding's wire name succeeds and stores the
\* value under that name; assigning it while the bag holds the name raises
\* AttributeError "Cannot set write-once attribute" and leaves the instance,
\* the stored value included, as it was.
C2_WriteOnce ==
    [][ \A i \in Slots, v \in Values :
          \A name \in NamesSerializedOn(inst[i].cls, {CREATE}) :
             SetAttr(i, name, v) =>
                LET api == BindingOf(inst[i].cls, name).api
                IN  IF api \notin DOMAIN inst[i].attrs
                    THEN /\ last' = [op |-> "set", kind |-> "return"]
                         /\ DOMAIN inst'[i].attrs = DOMAIN inst[i].attrs \cup {api}
                         /\ inst'[i].attrs[api] = v
                         /\ \A k \in DOMAIN inst[i].attrs : inst'[i].attrs[k] = inst[i].attrs[k]
                    ELSE /\ last' = [op |-> "set", kind |-> "AttributeError",
                                     why |-> "Cannot set write-once attribute"]
                         /\ inst' = inst
      ]_vars

\* C2 happens: a second assignment to Membership.role is refused and the bag
\* still holds the first value
C2_Witness ==
    /\ inst[1].cls = "Membership"
    /\ "role" \in DOMAIN inst[1].attrs
    /\ inst[1].attrs["role"] = "v1"
    /\ last = [op |-> "set", kind |-> "AttributeError",
               why |-> "Cannot set write-once attribute"]

\* The constructor calls that name a read-only field among their keywords
ReadOnlyKwargsOf ==
    [cls \in Classes |->
        {kw \in KwargsOf[cls] : DOMAIN kw \cap NamesSerializedOn(cls, {}) # {}}]

\* C3: every assignment to a read-only field (serialized on no action) raises
\* AttributeError, directly ("Cannot set read-only attribute") or as a
\* constructor keyword, whether or not the bag holds the binding's wire name,
\* and leaves the instance as it was.
C3_ReadOnly ==
    [][ \A i \in Slots :
          /\ \A v \in Values : \A name \in NamesSerializedOn(inst[i].cls, {}) :
                SetAttr(i, name, v) =>
                   /\ last' = [op |-> "set", kind |-> "AttributeError",
                               why |-> "Cannot set read-only attribute"]
                   /\ inst' = inst
          /\ last'.op = "init" =>
                \A cls \in Classes : \A kwargs \in ReadOnlyKwargsOf[cls] :
                   \/ /\ last'.kind = "AttributeError"
                      /\ ("abc" \notin DOMAIN kwargs => last'.why = "Cannot set read-only attribute")
                      /\ inst' = inst
                   \/ ~Construct(i, cls, kwargs)
      ]_vars

\* C3 happens: an instance fetched from the server holds createdAt, and an
\* assignment to created_at is refused
C3_Witness ==
    /\ inst[1].cls = "Membership"
    /\ "createdAt" \in DOMAIN inst[1].attrs
    /\ last = [op |-> "set", kind |-> "AttributeError",
               why |-> "Cannot set read-only attribute"]


(***************************************************************************)
(* Properties of the iteration (SpecIter)                                  *)
(***************************************************************************)
\* The server's answer is a page: a document whose data is a list of resources
\* and whose links.next is null or a string
IsPage(answer) ==
    /\ answer.kind = "return"
    /\ answer.value.t = "dict"
    /\ answer.value.data.t = "list"
    /\ answer.value.links.t = "dict"
    /\ answer.value.links.next.t \in {"null", "str"}

\* The answers so far are the pages 1..Len(chain) of a chain: every page but
\* the last one links to a next page
PagesSoFar ==
    /\ chain # <<>>
    /\ \A p \in DOMAIN chain : IsPage(chain[p])
    /\ \A p \in 1..(Len(chain) - 1) : chain[p].value.links.next.t = "str"

\* The last page served has links.next = null
LastPageServed == chain[Len(chain)].value.links.next.t = "null"

RECURSIVE IdsUpTo(_)
\* The ids of the resources of pages 1..n, in page order and in in-page order
IdsUpTo(n) ==
    IF n = 0 THEN <<>>
    ELSE LET items == chain[n].value.data.items
         IN  IdsUpTo(n - 1) \o [k \in DOMAIN items |-> items[k].id]

\* C1: while the server answers with the pages of a chain, the iteration has
\* issued exactly one GET per page served and has raised nothing; what it has
\* yielded are instances of the query's class whose ids are, in order, a prefix
\* of the ids of the pages served, and that prefix holds every item of every
\* page before the last one served, so that a page is requested only when the
\* page before it is yielded completely; when every item of the page with
\* links.next = null is yielded, the only step left is the generator's return,
\* and once it has returned the k pages of the chain have cost k GETs and all
\* their items are yielded.
C1_Pagination ==
    PagesSoFar =>
        LET n == Len(chain)
            all == IdsUpTo(n)
        IN  /\ Len(gets) = n
            /\ it.pc \in {"page", "done"}
            /\ Len(yielded) <= Len(all)
            /\ \A k \in DOMAIN yielded :
                    yielded[k].id = all[k] /\ yielded[k].cls = QueryClass
            /\ Len(yielded) >= Len(IdsUpTo(n - 1))
            /\ (it.pc = "page" /\ LastPageServed /\ Len(yielded) = Len(all))
                  => /\ ENABLED IterEnd
                     /\ ~ENABLED IterYield
                     /\ ~ENABLED (\E answer \in PageAnswers(n + 1) : IterFetch(answer))
                     /\ ~ENABLED IterLinkError
                     /\ ~ENABLED IterPageError
            /\ it.pc = "done"
                  => /\ LastPageServed
                     /\ Len(yielded) = Len(all)

\* C1 happens: a chain of two pages of two items each is iterated to its end
\* with two GETs
C1_Witness ==
    /\ PagesSoFar
    /\ Len(chain) = 2
    /\ it.pc = "done"
    /\ Len(gets) = 2
    /\ [k \in DOMAIN yielded |-> yielded[k].id] = <<"1-1", "1-2", "2-1", "2-2">>


(***************************************************************************)
(* Properties of equality and of the round trip (SpecEq)                   *)
(***************************************************************************)
\* The instance holds a value for every declared attribute
Full(a) == Range(jsonapi_attribute_names(a.cls)) \subseteq DOMAIN a.attrs

\* The instance has no id
Unmapped(a) == a.id = None

\* The value an instance holds for a declared attribute, "<unset>" for none
Held(a, api) == IF api \in DOMAIN a.attrs THEN a.attrs[api] ELSE "<unset>"

\* The ids are equal and every declared attribute has the same value in both
SameIdAndAttributes(a, b) ==
    /\ a.id = b.id
    /\ \A api \in Range(jsonapi_attribute_names(a.cls)) : Held(a, api) = Held(b, api)

\* C4: comparing two instances of the same model type returns True if their
\* ids are equal and every declared attribute has the same value in both, and
\* False otherwise, whatever their relationships are; stated for the pairs
\* whose comparison needs nothing from the server: both instances unmapped,
\* sparse bags included, or both holding every declared attribute.
C4_Equality ==
    [][ \A i, j \in Slots :
          ( /\ Eq(i, j)
            /\ inst[i].cls = inst[j].cls
            /\ \/ Unmapped(inst[i]) /\ Unmapped(inst[j])
               \/ Full(inst[i]) /\ Full(inst[j]) )
          => last' = [op |-> "eq", args |-> <<i, j>>, kind |-> "return",
                      value |-> SameIdAndAttributes(inst[i], inst[j])]
      ]_vars

\* The instance can be built from declared attribute values: every name in its
\* bag belongs to a binding that accepts an assignment on a new instance
Built(a) ==
    DOMAIN a.attrs \subseteq
        {b.api : b \in {c \in Range(Bindings(a.cls)) : c.serialize # {}}}

\* C7 as stated: after an instance that holds a value for every declared
\* attribute and no id is serialized for create and the server's echo is
\* deserialized, the deserialized instance compares equal to it.
C7_RoundTripEqual ==
    [][ ( /\ rt.valid
          /\ Built(inst[rt.src])
          /\ Full(inst[rt.src])
          /\ Unmapped(inst[rt.src])
          /\ Eq(rt.dst, rt.src) )
        => last' = [op |-> "eq", args |-> <<rt.dst, rt.src>>, kind |-> "return",
                    value |-> TRUE]
      ]_vars

\* C7: serializing an instance built from declared attribute values for create
\* and deserializing the server's echo, which carries the same attributes
\* under an id, gives an instance of the same class with the echo's id and the
\* same attribute bag.  Compared with the instance that was serialized, it is
\* unequal when that instance's id is not the echo's id (an unmapped instance
\* in particular), and equal when that instance has the echo's id and holds a
\* value for every declared attribute.
C7_RoundTrip ==
    [][ /\ \A i, j \in Slots, id \in IDs :
             (RoundTrip(i, j, id) /\ Built(inst[i]))
                => /\ last' = [op |-> "round_trip", kind |-> "return"]
                   /\ inst'[j].cls = inst[i].cls
                   /\ inst'[j].id = id
                   /\ inst'[j].attrs = inst[i].attrs
        /\ (rt.valid /\ Built(inst[rt.src]) /\ Eq(rt.dst, rt.src))
                => IF inst[rt.src].id # rt.id
                   THEN last' = [op |-> "eq", args |-> <<rt.dst, rt.src>>,
                                 kind |-> "return", value |-> FALSE]
                   ELSE Full(inst[rt.src])
                            => last' = [op |-> "eq", args |-> <<rt.dst, rt.src>>,
                                        kind |-> "return", value |-> TRUE]
      ]_vars

\* C7 happens: the round trip of a Test instance with id and both attributes
\* compares equal to that instance
C7_Witness ==
    /\ rt.valid
    /\ inst[rt.src].id = rt.id
    /\ Full(inst[rt.src])
    /\ Built(inst[rt.src])
    /\ last = [op |-> "eq", args |-> <<rt.dst, rt.src>>, kind |-> "return", value |-> TRUE]


(***************************************************************************)
(* Properties of the configuration (SpecConfig)                            *)
(***************************************************************************)
\* C14: after any assignments of api_config.token and changes of
\* VILOCIFY_API_TOKEN, a read of api_config.token returns the token assigned
\* last when that is a non-empty string, otherwise the variable's value at the
\* time of the read when it is set and non-empty, otherwise "".  In steps: an
\* assignment makes its value the assigned token and leaves the environment
\* alone, a change of the environment leaves the assigned token alone, no token
\* is assigned at first, and a read changes neither and returns by that rule.
C14_Token ==
    /\ config.token = None
    /\ [][ /\ \A v \in TokenValues :
                SetToken(v) => config'.token = v /\ config'.env = config.env
           /\ \A e \in EnvValues :
                SetEnv(e) => config'.env = e /\ config'.token = config.token
           /\ ReadToken =>
                /\ config' = config
                /\ cret'.value =
                      IF config.token \notin {None, ""} THEN config.token
                      ELSE IF config.env \notin {Absent, ""} THEN config.env
                      ELSE ""
         ]_vars

\* C14 happens: with "" assigned last (after "t1") and the variable set to
\* "e1", the read returns the variable's value
C14_Witness ==
    /\ config.token = ""
    /\ config.authorization = "Bearer "
    /\ config.env = "e1"
    /\ cret = [op |-> "token", value |-> "e1"]


(***************************************************************************)
(* Properties of the operations on the server (SpecWrite)                  *)
(***************************************************************************)
\* {base}/{type}/{id} for the default base URL
ResourceUrl(cls, id) ==
    <<"https:", "/", "/", "portal.vilocify.com", "/", "api", "/", "v2", "/",
      jsonapi_type_name(cls), "/", id>>

\* The server's answer holds no resource: a null body, or a document whose
\* data is null or absent
NoResource(outcome) ==
    /\ outcome.kind = "return"
    /\ \/ outcome.value.t = "null"
       \/ outcome.value.t = "dict" /\ outcome.value.data.t \in {"null", "absent"}

\* The server's answer holds a resource with an id
HasResource(outcome) ==
    /\ outcome.kind = "return"
    /\ outcome.value.t = "dict"
    /\ outcome.value.data.t = "dict"
    /\ outcome.value.data.id # Absent

\* C15: get(id) issues exactly one GET, to {base}/{type}/{id}; when the answer
\* holds a resource it returns an instance of the class with the id of the
\* answer's resource, when the answer holds no resource (null body, data null
\* or absent) it raises UnmappedModelError, and it returns in no other case:
\* never None.
C15_Get ==
    [][ (last = Idle /\ last'.op = "get") =>
          LET cls == last'.args[1]
              id == last'.args[2]
              i == last'.slot
          IN  /\ last'.sent = <<[verb |-> "GET", url |-> ResourceUrl(cls, id), json |-> None]>>
              /\ last'.kind = "return" <=> HasResource(last'.answer)
              /\ HasResource(last'.answer) =>
                    /\ inst'[i].cls = cls
                    /\ inst'[i].id = last'.answer.value.data.id
              /\ NoResource(last'.answer) =>
                    /\ last'.kind = "UnmappedModelError"
                    /\ inst' = inst
      ]_vars

\* C15 happens: a get was answered with `data: null` and raised
\* UnmappedModelError after its one GET
C15_Witness ==
    /\ last.op = "get"
    /\ last.kind = "UnmappedModelError"
    /\ last.args = <<"Test", "i2">>
    /\ last.answer = [kind |-> "return",
                      value |-> [t |-> "dict", data |-> JSONNull, included |-> JSONAbsent]]
    /\ last.sent = <<[verb |-> "GET", url |-> ResourceUrl("Test", "i2"), json |-> None]>>

\* The operation of the step needs an identity that is missing: update, delete
\* and extend of an unmapped instance, extend with an unmapped related instance
UnmappedOperand ==
    /\ last'.op \in {"update", "delete", "extend"}
    /\ \/ inst[last'.slot].id = None
       \/ /\ last'.op = "extend"
          /\ \E k \in DOMAIN last'.args[2] : last'.args[2][k].id = None

\* C11: update and delete of an unmapped instance, and extend
\* (update_many_related) of an unmapped owner or with any unmapped related
\* instance, raise UnmappedModelError before any HTTP request is issued and
\* leave every instance (id, attribute bag, relationship maps) unchanged.
C11_Unmapped ==
    [][ (last = Idle /\ UnmappedOperand) =>
          /\ last'.kind = "UnmappedModelError"
          /\ last'.sent = <<>>
          /\ inst' = inst
      ]_vars

\* C11 happens: extend of a mapped owner with a mapped and an unmapped related
\* instance has raised, and nothing was sent
C11_Witness ==
    /\ last.op = "extend"
    /\ inst[last.slot].id # None
    /\ last.args[2] = <<[cls |-> "Test", id |-> "i1"], [cls |-> "Test", id |-> None]>>
    /\ last.kind = "UnmappedModelError"
    /\ last.why = "Related model has no id"
    /\ last.sent = <<>>

\* C13: for a mapped owner, delete(related...) on a to-many relationship
\* issues one DELETE to {base}/{type}/{owner id}/relationships/{name} and
\* completes without error (the server answers 204 with no body).
C13_ManyDelete ==
    [][ (last = Idle /\ last'.op = "many_delete" /\ inst[last'.slot].id # None) =>
          LET obj == inst[last'.slot]
          IN  /\ last'.kind = "return"
              /\ Len(last'.sent) = 1
              /\ last'.sent[1].verb = "DELETE"
              /\ last'.sent[1].url = RelationshipUrl(obj.cls, obj.id, last'.args[1]).url
      ]_vars

\* The attribute bag of the resource of a server's answer (no `included`)
ResponseBag(outcome) ==
    IF outcome.value.data.attributes.t = "absent" THEN EmptyDict
    ELSE outcome.value.data.attributes.d

\* C16: a create or update that succeeds on an answer with a resource leaves
\* the caller's instance with the answer's id and the answer's attribute bag
\* (replaced, not merged); on an answer without a resource (null body, data
\* null or absent) the id and the bag are unchanged; in both cases the to-one
\* and to-many relationship maps, and every other instance, are unchanged.
C16_WriteBack ==
    [][ (last = Idle /\ last'.op \in {"create", "update"} /\ last'.kind = "return") =>
          LET i == last'.slot
              answer == last'.answer
          IN  /\ HasResource(answer) \/ NoResource(answer)
              /\ HasResource(answer) =>
                    /\ inst'[i].id = answer.value.data.id
                    /\ inst'[i].attrs = ResponseBag(answer)
              /\ NoResource(answer) =>
                    /\ inst'[i].id = inst[i].id
                    /\ inst'[i].attrs = inst[i].attrs
              /\ inst'[i].cls = inst[i].cls
              /\ inst'[i].toOne = inst[i].toOne
              /\ inst'[i].toMany = inst[i].toMany
              /\ \A j \in Slots \ {i} : inst'[j] = inst[j]
      ]_vars

\* C16 happens: an update sent an attribute the answer's resource does not
\* hold, and the instance, which has a relationship assigned, now holds the
\* answer's id and bag without that attribute
C16_Witness ==
    /\ last.op = "update"
    /\ last.kind = "return"
    /\ HasResource(last.answer)
    /\ inst[last.slot].id = last.answer.value.data.id
    /\ inst[last.slot].id # last.sent[1].json.data.id
    /\ inst[last.slot].attrs = ResponseBag(last.answer)
    /\ DOMAIN last.sent[1].json.data.attributes \ DOMAIN inst[last.slot].attrs # {}
    /\ inst[last.slot].toMany # EmptyDict

\* The step is an operation on an instance that exists before and after it
\* (a constructor call and Model.get put a new instance into a slot)
OperationStep == last = Idle /\ last'.op \notin {"none", "init", "get"}

\* The step is a refresh (explicit, or started by the read of an attribute the
\* bag does not hold), a create or an update of instance i, and it received a
\* resource from the server
ReceivedResource(i) ==
    /\ last'.op \in {"refresh", "read", "create", "update"}
    /\ last'.slot = i
    /\ "answer" \in DOMAIN last'
    /\ HasResource(last'.answer)

\* C17 as stated: the id of a mapped instance changes only in a refresh
\* (explicit or implicit), create or update step that received a response, and
\* every failed operation leaves the id unchanged.
C17_IdImmutable ==
    [][ OperationStep =>
          \A i \in Slots :
             inst[i].id # None =>
                /\ inst'[i].id # inst[i].id => ReceivedResource(i)
                /\ last'.kind # "return" => inst'[i].id = inst[i].id
      ]_vars

\* C17 amended: the id of a mapped instance changes only in a refresh
\* (explicit or implicit), create or update step that received a resource; a
\* failed operation leaves the id unchanged unless it is the read of an absent
\* attribute whose implicit refresh received a resource (the read then fails
\* with KeyError on the refreshed bag, and the refreshed id stays).
C17_IdChanges ==
    [][ OperationStep =>
          \A i \in Slots :
             inst[i].id # None =>
                /\ inst'[i].id # inst[i].id => ReceivedResource(i)
                /\ (last'.kind # "return" /\ inst'[i].id # inst[i].id) =>
                      /\ last'.op = "read"
                      /\ last'.kind = "KeyError"
                      /\ inst'[i].id = last'.answer.value.data.id
                      /\ last'.args[1] \in Range(model_attribute_names(inst[i].cls))
      ]_vars

\* C17 happens: an update of the instance with id "i1" returned on an answer
\* with the resource "i2", and the instance now has the id "i2"
C17_Witness ==
    /\ last.op = "update"
    /\ last.kind = "return"
    /\ last.sent[1].json.data.id = "i1"
    /\ HasResource(last.answer)
    /\ inst[last.slot].id = "i2"

\* C19: once an instance is persisted (it holds an id: constructed with one,
\* returned by get, or given one by a create response), every assignment to a
\* write-once field (serialized on create only) raises AttributeError and
\* leaves the instance as it was, whether or not the bag holds the field's key.
C19_WriteOncePersisted ==
    [][ (last = Idle /\ last'.op = "set") =>
          \A i \in Slots, v \in Values :
             \A name \in NamesSerializedOn(inst[i].cls, {CREATE}) :
                \/ inst[i].id = None
                \/ ~SetAttr(i, name, v)
                \/ /\ last'.kind = "AttributeError"
                   /\ inst' = inst
      ]_vars

\* The operation of the step requires a persisted identity: update, delete,
\* extend, refresh, the read of a to-one relationship, the iteration of a
\* to-many relationship, and the read of a declared attribute the bag does not
\* hold
RequiresIdentity ==
    \/ last'.op \in {"update", "delete", "extend", "refresh", "read_to_one", "iter_many"}
    \/ /\ last'.op = "read"
       /\ BindingOf(inst[last'.slot].cls, last'.args[1]).api \notin DOMAIN inst[last'.slot].attrs

\* C20: every operation that requires a persisted identity, invoked on an
\* unmapped instance (id None), raises UnmappedModelError and issues no HTTP
\* request.
C20_UnmappedError ==
    [][ (last = Idle /\ RequiresIdentity /\ inst[last'.slot].id = None) =>
          /\ last'.kind = "UnmappedModelError"
          /\ last'.sent = <<>>
      ]_vars

(***************************************************************************)
(* Properties of the constructor (SpecInit)                                *)
(***************************************************************************)
\* The keywords of a constructor call that name declared attributes
DeclaredIn(cls, kwargs) == DOMAIN kwargs \cap Range(model_attribute_names(cls))

\* C12, what construction stores: a keyword that names a declared attribute
\* stores what the assignment of its value to an empty instance stores (and
\* raises AttributeError where that assignment raises), a keyword that names
\* neither a declared attribute nor `id` nor `type` makes the constructor
\* raise AttributeError, and the bag holds nothing else: `id` and `type` never
\* enter it.
C12_Stored ==
    [][ (last = Idle /\ last'.op = "init") =>
          LET i == last'.args[1]
              cls == last'.args[2]
              kwargs == last'.args[3]
              declared == DeclaredIn(cls, kwargs)
          IN  /\ \A k \in declared :
                    LET binding == BindingOf(cls, k)
                    IN  IF AttributeSetCheck(binding, EmptyDict) = "ok"
                        THEN last'.kind = "return" =>
                                /\ binding.api \in DOMAIN inst'[i].attrs
                                /\ inst'[i].attrs[binding.api] =
                                      AttributeSet(binding, EmptyDict, kwargs[k])[binding.api]
                        ELSE /\ last'.kind = "AttributeError"
                             /\ inst' = inst
              /\ DOMAIN kwargs \ (declared \cup {"id", "type"}) # {} =>
                    /\ last'.kind = "AttributeError"
                    /\ inst' = inst
              /\ last'.kind = "return" =>
                    /\ DOMAIN inst'[i].attrs = {BindingOf(cls, k).api : k \in declared}
                    /\ inst'[i].cls = cls
      ]_vars

\* C12, the equality: an instance built from keywords that name declared
\* attributes (slot 1) and an instance built empty and assigned the same
\* values (slot 2) are equal: the comparison returns True.
C12_Equal ==
    [][ ( /\ last = Idle
          /\ last'.op = "eq"
          /\ inst[1].cls = inst[2].cls
          /\ inst[1].id = None
          /\ inst[1].attrs # EmptyDict
          /\ inst[1].attrs = inst[2].attrs ) =>
          last' = EqReturned(1, 2, TRUE)
      ]_vars

\* C12: construction applies each keyword through the field bindings.
C12_Construction == C12_Stored /\ C12_Equal

(***************************************************************************)
(* Properties of the filters of an iteration (SpecFilter)                  *)
(***************************************************************************)
\* The filter parameters among the params of a GET: every parameter but
\* page[size], fields[<type>] and sort
FilterKeys(params) ==
    DOMAIN params \ {"page[size]", "sort", "fields[" \o jsonapi_type_name(QueryClass) \o "]"}

\* C18: the first GET of an iteration carries one distinct parameter
\* filter[attribute][operator]=value for each filter the where calls have
\* accumulated: as many filter parameters as filters, also when two filters
\* have the same attribute and operator.
C18_FilterParams ==
    [][ (it.pc = "idle" /\ it'.pc # "idle") =>
          LET params == gets'[1].params
          IN  /\ Cardinality(FilterKeys(params)) = Len(query.filters)
              /\ \A k \in DOMAIN query.filters :
                    LET f == query.filters[k]
                        key == "filter[" \o f.attribute \o "][" \o f.operator \o "]"
                    IN  key \in DOMAIN params /\ params[key] = f.value
      ]_vars

(***************************************************************************)
(* Properties of the following pages of an iteration (SpecIter)            *)
(***************************************************************************)
\* The URL a next link stands for: an absolute link is the URL itself, a path
\* is taken on the API's host
LinkTarget(link) ==
    IF link # <<>> /\ Head(link) \in {"http:", "https:"} THEN link ELSE api_host \o link

\* C21: the URL of each GET after the first is exactly the next link of the
\* previous response (an absolute link unchanged, a path on the API's host),
\* and the GET carries no query parameter: filter, sort, fields and page[size]
\* go with the first request only.
C21_NextLink ==
    \A k \in 2..Len(gets) :
       /\ gets[k].params = EmptyDict
       /\ gets[k].url = LinkTarget(chain[k - 1].value.links.next.v)

\* The document of the current page has a links section without a `next` entry
NoNextEntry ==
    /\ it.response.t = "dict"
    /\ it.response.links.t = "dict"
    /\ it.response.links.next.t = "absent"

\* C22: when the page's document has no next link (its links section has no
\* `next` entry), the iteration ends normally once the page's items are
\* yielded: it does not raise and it issues no further request.
C22_NoNextEnds ==
    [][ (Exhausted /\ NoNextEntry) =>
          /\ it' = IterDone
          /\ gets' = gets
          /\ yielded' = yielded
      ]_vars

\* What C23 says of deserialize_next_link on a document: links.next when it is
\* a string or null, DeserializationError when the document is no object, when
\* links is missing or no object, or when next is present but neither a string
\* nor null (it says nothing of an object links without next)
NextLinkAsClaimed(doc) ==
    LET res == deserialize_next_link(doc)
    IN  IF doc.t # "dict" THEN res = [kind |-> "DeserializationError"]
        ELSE IF doc.links.t # "dict" THEN res = [kind |-> "DeserializationError"]
        ELSE IF doc.links.next.t = "str" THEN res = [kind |-> "link", link |-> doc.links.next.v]
        ELSE IF doc.links.next.t = "null" THEN res = [kind |-> "None"]
        ELSE IF doc.links.next.t = "absent" THEN TRUE
        ELSE res = [kind |-> "DeserializationError"]

\* C23, the function: on every document an iteration receives
C23_Function ==
    \A k \in DOMAIN chain :
       (chain[k].kind = "return" /\ chain[k].value.t # "null") => NextLinkAsClaimed(chain[k].value)

\* C23, the iteration: the error of deserialize_next_link is raised only after
\* every item of the current page has been yielded (a step that raises without
\* a request, on a page whose document deserialize_many accepts, either comes
\* after the last item or is the failure of the next item itself)
C23_AfterItems ==
    [][ (it.pc = "page" /\ it'.pc = "raised" /\ gets' = gets) =>
          LET page == deserialize_many(QueryClass, it.response)
          IN  page.kind = "items" =>
                 \/ it.pos = Len(page.items) /\ yielded' = yielded
                 \/ it.pos < Len(page.items) /\ page.items[it.pos + 1].kind \notin {"obj", "None"}
      ]_vars

\* C23: deserialize_next_link returns links.next when it is a string or null
\* and fails with DeserializationError, and no other exception, on a document
\* that is no object, whose links is missing or no object, or whose next is
\* neither a string nor null; in an iteration the error comes after the items
\* of the page.
C23_NextLinkErrors == []C23_Function /\ C23_AfterItems

(***************************************************************************)
(* Properties of the lazy reads (SpecWrite)                                *)
(***************************************************************************)
\* C24: the read of a declared attribute whose wire name the bag holds returns
\* the stored value, issues no request and leaves the instance unchanged; the
\* read of one whose wire name the bag of a mapped instance does not hold
\* issues exactly one GET, to the instance's resource URL, and when the answer
\* holds a resource with that attribute it returns the value of the refreshed
\* bag, which is the answer's; it returns in no other case.
C24_Read ==
    [][ (last = Idle /\ last'.op = "read") =>
          LET i == last'.slot
              obj == inst[i]
              api == BindingOf(obj.cls, last'.args[1]).api
          IN  IF api \in DOMAIN obj.attrs
              THEN /\ last'.kind = "return"
                   /\ last'.value = obj.attrs[api]
                   /\ last'.sent = <<>>
                   /\ inst' = inst
              ELSE obj.id # None =>
                      /\ last'.sent = <<[verb |-> "GET", url |-> ResourceUrl(obj.cls, obj.id),
                                         json |-> None]>>
                      /\ last'.kind = "return" <=>
                            /\ HasResource(last'.answer)
                            /\ api \in DOMAIN ResponseBag(last'.answer)
                      /\ last'.kind = "return" =>
                            /\ inst'[i].attrs = ResponseBag(last'.answer)
                            /\ last'.value = inst'[i].attrs[api]
      ]_vars

\* C24 happens: on a mapped instance that held a1 = "v1" only, the read of a2
\* issued a GET and returned "v2", the value of the refreshed bag
C24_Witness ==
    /\ last.op = "read"
    /\ last.args = <<"a2">>
    /\ last.kind = "return"
    /\ Len(last.sent) = 1
    /\ last.value = "v2"
    /\ inst[last.slot].id # None
    /\ inst[last.slot].attrs = ResponseBag(last.answer)
    /\ inst[last.slot].attrs["a2"] = "v2"

\* The step is a refresh of an instance, explicit or started by the read of an
\* attribute its bag does not hold, that issued its GET
RefreshStep ==
    /\ last = Idle
    /\ last'.op \in {"refresh", "read"}
    /\ last'.sent # <<>>

\* C25: a refresh, explicit or started by the read of an absent attribute,
\* that receives a resource replaces the whole bag of the instance by the
\* bag of that resource and takes its id: an attribute written locally and not
\* yet sent holds the server's value afterwards, or has no entry when the
\* resource has none; the relationship maps are unchanged, and a refresh that
\* receives no resource changes nothing.
C25_RefreshReplaces ==
    [][ RefreshStep =>
          LET i == last'.slot
          IN  IF HasResource(last'.answer)
              THEN /\ inst'[i].attrs = ResponseBag(last'.answer)
                   /\ inst'[i].id = last'.answer.value.data.id
                   /\ inst'[i].toOne = inst[i].toOne
                   /\ inst'[i].toMany = inst[i].toMany
                   /\ \A j \in Slots \ {i} : inst'[j] = inst[j]
              ELSE inst' = inst
      ]_vars

\* C25 happens: the read of a2 on a mapped instance was answered with a
\* resource that holds a1 = "v2" and a2 = "v1", and the bag is that resource's
C25_Witness ==
    /\ last.op = "read"
    /\ last.args = <<"a2">>
    /\ last.sent # <<>>
    /\ HasResource(last.answer)
    /\ ResponseBag(last.answer) = [a1 |-> "v2", a2 |-> "v1"]
    /\ inst[last.slot].attrs = [a1 |-> "v2", a2 |-> "v1"]

\* C26: every read of a to-one relationship of a mapped instance issues one
\* GET to {base}/{type}/{id}/relationships/{name} and returns what the answer
\* deserializes to: None when the answer holds no resource, else an instance
\* with the id and the bag of the answer's resource.  The read depends on the
\* answer only: a model object assigned locally to the relationship is never
\* what it returns, and no read is served without a request.
C26_ToOneRead ==
    [][ (last = Idle /\ last'.op = "read_to_one" /\ inst[last'.slot].id # None) =>
          LET obj == inst[last'.slot]
              answer == last'.answer
          IN  /\ last'.sent = <<[verb |-> "GET",
                                 url |-> RelationshipUrl(obj.cls, obj.id, "test").url,
                                 json |-> None]>>
              /\ last'.kind = "return" <=> (HasResource(answer) \/ NoResource(answer))
              /\ NoResource(answer) => last'.value = [kind |-> "None"]
              /\ HasResource(answer) =>
                    /\ last'.value.kind = "obj"
                    /\ last'.value.obj.id = answer.value.data.id
                    /\ last'.value.obj.attrs = ResponseBag(answer)
              /\ inst' = inst
      ]_vars

\* C26 happens: a model object is assigned to the relationship, and a read of
\* it issued its GET and returned None, the answer holding `data: null`
C26_Witness ==
    /\ last.op = "read_to_one"
    /\ last.kind = "return"
    /\ Len(last.sent) = 1
    /\ last.value = [kind |-> "None"]
    /\ "test" \in DOMAIN inst[last.slot].toOne

(***************************************************************************)
(* Properties of repeated iterations (SpecReiterate)                       *)
(***************************************************************************)
\* C27: nothing is cached between iterations. Against a server that holds
\* MaxPages pages, every complete iteration of the query issues MaxPages GETs
\* whatever came before it: after m complete iterations the server has
\* counted m * MaxPages requests, and a step that does not advance an
\* iteration (building the query) issues no request.
C27_Counted ==
    /\ calls = runs * MaxPages + Len(gets)
    /\ it.pc = "idle" => calls = runs * MaxPages
    /\ it.pc = "done" => Len(gets) = MaxPages /\ calls = (runs + 1) * MaxPages
EligibleNames(cls, action) ==
    {Bindings(cls)[k].api : k \in {j \in DOMAIN Bindings(cls) : action \in Bindings(cls)[j].serialize}}

\* The attributes, and the relationship linkage, of the document a create or
\* an update of `obj` sends: the eligible wire names the bag holds with the
\* bag's values, and one linkage per assigned relationship
DocumentHasBag(doc, obj, action) ==
    /\ doc.data.type = jsonapi_type_name(obj.cls)
    /\ DOMAIN doc.data.attributes = EligibleNames(obj.cls, action) \cap DOMAIN obj.attrs
    /\ \A k \in DOMAIN doc.data.attributes : doc.data.attributes[k] = obj.attrs[k]
    /\ DOMAIN doc.data.relationships = DOMAIN obj.toOne \cup DOMAIN obj.toMany
    /\ \A n \in DOMAIN obj.toOne :
          doc.data.relationships[n] =
              [data |-> [id |-> obj.toOne[n].id, type |-> jsonapi_type_name(obj.toOne[n].cls)]]
    /\ \A n \in DOMAIN obj.toMany \ DOMAIN obj.toOne :
          /\ Len(doc.data.relationships[n].data) = Len(obj.toMany[n])
          /\ \A k \in DOMAIN obj.toMany[n] :
                doc.data.relationships[n].data[k] =
                    [id |-> obj.toMany[n][k].id, type |-> jsonapi_type_name(obj.toMany[n][k].cls)]

\* The create or update step that sent a document
SendsDocument ==
    /\ last = Idle
    /\ last'.op \in {"create", "update"}
    /\ last'.sent # <<>>

\* The attributes and the linkage of every document sent are as C28 says
C28_Attributes ==
    [][ SendsDocument =>
          DocumentHasBag(last'.sent[1].json, inst[last'.slot], last'.op) ]_vars

\* C28: the document of a create or an update has exactly the eligible wire
\* names the bag holds, one linkage per assigned relationship, and the id of
\* the instance exactly when the instance is mapped (its id is not None).
C28_Document ==
    [][ SendsDocument =>
          LET doc == last'.sent[1].json
              obj == inst[last'.slot]
          IN  /\ DocumentHasBag(doc, obj, last'.op)
              /\ doc.data.id = (IF obj.id # None THEN obj.id ELSE Absent) ]_vars

(***************************************************************************)
(* Properties of the Authorization header (SpecConfig)                     *)
(***************************************************************************)
\* C29: whatever tokens were assigned and however the environment variable
\* VILOCIFY_API_TOKEN was changed since the configuration object was created,
\* a request is sent with the Authorization header "Bearer " followed by the
\* value api_config.token has when the request is sent.
C29_Authorization ==
    [][ (cret' # cret /\ cret'.op = "request") =>
          cret'.authorization = "Bearer " \o token(config) ]_vars

=========================================================================
